---- MODULE Spec2Model ----
(***************************************************************************)
(* Model of the metadata DB service of the Common Object Management        *)
(* Service (src/app/src/services/metadata.js): associateMetadata,          *)
(* pruneOrphanedMetadata, createMetadata and fetchMetadataForObject, over  *)
(* the relational tables metadata / version_metadata / version / object.   *)
(*                                                                         *)
(* Spec      every service call runs start to finish as one step, in its   *)
(*           own transaction                                               *)
(* SpecTrx   as Spec, with a caller's transaction and failing statements   *)
(* SpecConc  two associateMetadata calls interleave statement by statement *)
(*           under read-committed isolation                                *)
(* SpecFetch the version catalog and fetchMetadataForObject                *)
(***************************************************************************)
EXTENDS Integers, Sequences, FiniteSets, TLC

\* ------------------------------------------------------------------ bounds
\* greatest id the metadata id sequence may hand out
MaxId == 3
\* greatest length of an incoming metadata array
MaxLen == 2
\* greatest value of the clock behind version.createdAt
MaxClock == 3
\* greatest number of permission rows
MaxGrants == 2
\* greatest number of ids in a list a query parameter sends
MaxIds == 2
\* greatest number of grants in the body of one addPermissions request
MaxBody == 2

Keys == {"k1", "k2"}
Values == {"a", "b"}
Versions == {"V1", "V2"}
\* SpecFetch: the objects, and the ids its versions get, in the order they are created
Objects == {"O1", "O2"}
VersionIds == <<"V1", "V2", "V3">>
\* SpecPerm: the users, the buckets and the permission codes of the grants
Users == {"u1", "u2"}
Buckets == {"B1", "B2"}
PermCodes == {"READ", "UPDATE"}
\* SpecUser: the identities, idp codes and e-mail addresses of tokens, and the
\* uuids new user rows get
IdentityIds == {"i1", "i2"}
IdpCodes == {"idir", "bceid"}
Emails == {"e1", "e2"}
UserIds == {"u1", "u2"}
\* uuid NIL, the system user
SYSTEM_USER == "00000000-0000-0000-0000-000000000000"
\* the currentUserId argument: omitted, or a user's uuid
UserArgs == {"undefined", "u1"}

\* the (key, value) pairs callers send
Pair == {p \in [key : Keys, value : Values] : ~(p.key = "k2" /\ p.value = "b")}
\* the incoming `metadata` arrays
Inputs == UNION {[1..n -> Pair] : n \in 0..MaxLen}
\* the incoming arrays of the calls that run on a caller's transaction or meet a fault
ShortInputs == {md \in Inputs : Len(md) <= 1 /\ \A i \in 1..Len(md) : md[i].key = "k1"}

\* the statements a call issues; a fault names the one that the database fails
Statements == {"startTransaction", "selectMetadata", "insertMetadata", "selectJoins",
               "deleteJoins", "pruneSelect", "pruneDelete", "insertJoins", "commit"}
Faults == {"none"} \cup Statements

VARIABLES
  metadata,         \* committed rows of table metadata: [id, key, value]
  versionMetadata,  \* committed rows of table version_metadata: [versionId, metadataId, createdBy]
  nextId,           \* the identity sequence of metadata.id
  onDelete,         \* the schema's ON DELETE action of version_metadata.metadataId
  etrx,             \* the transaction a caller of the service holds open
  last,             \* the last service call: its arguments and its outcome
  pc,               \* SpecConc: the statement each concurrent call is at
  loc,              \* SpecConc: the locals of each concurrent call
  version,          \* SpecFetch: rows of table version
  clock,            \* SpecFetch: the database clock behind version.createdAt
  fetched,          \* SpecFetch: the last call of a read or of addPermissions and its result
  perm,             \* SpecPerm: rows of tables object_permission and bucket_permission:
                    \* [rowId, scope, id, userId, permCode], id the object or bucket
  http,             \* SpecHttp: the last request to the object-permission router and its answer
  userTable,        \* SpecUser: rows of table user: [userId, identityId, idp, email]
  identityProvider, \* SpecUser: rows of table identity_provider: the idp codes
  userLast,         \* SpecUser: the last call of the user service and the calls it made
  logins,           \* SpecLogin: the login calls in progress: where each is, its token, the row it found
  s3Store,          \* SpecStorage: the objects of the bucket: [present, metadata, tags] per key
  storageLast,      \* SpecStorage: the last call of the storage service, the commands it sent, its outcome
  app               \* SpecApp: the process of app.js: its state object, timers, pending checks

\* the variables of the metadata service and its tables
metadataVars == <<metadata, versionMetadata, nextId, onDelete, etrx, last, pc, loc, version, clock, fetched>>
\* the variables of the user service
userVars == <<userTable, identityProvider, userLast, logins>>
\* the variables of the storage service
storageVars == <<s3Store, storageLast>>
\* the variables the metadata service writes none of
otherVars == <<perm, http, userVars, storageVars, app>>

vars == <<metadataVars, otherVars>>

\* ------------------------------------------------------- transactions
NoTrx == [st |-> "none", insMd |-> {}, delMd |-> {}, insVm |-> {}, delVm |-> {}]
\* Metadata.startTransaction()
NewTrx == [NoTrx EXCEPT !.st = "open"]

\* what a statement on transaction h reads: committed rows and h's own writes
ViewMd(c, h) == (c.md \ h.delMd) \cup h.insMd
ViewVm(c, h) == (c.vm \ h.delVm) \cup h.insVm

\* trx.commit()
ApplyTrx(c, h) == [md |-> ViewMd(c, h), vm |-> ViewVm(c, h)]

SeqToSet(s) == {s[i] : i \in 1..Len(s)}

RECURSIVE MapIds(_)
\* rows.map(({ id }) => id) on an array of rows
MapIds(rows) == IF rows = <<>> THEN <<>> ELSE <<Head(rows).id>> \o MapIds(Tail(rows))


\* ------------------------------------------------- the running call
\* what a running call carries: the committed tables c, its transaction h, the
\* id sequence, the statements it has issued, the error thrown, its locals
Ctx0(c, h, nid) ==
  [c |-> c, h |-> h, nid |-> nid, log |-> <<>>, threw |-> "none",
   allMetadata |-> {}, dbMetadata |-> <<>>, associatedMetadata |-> {},
   dissociateMetadata |-> {}, deletedMetadataIds |-> {}, deleted |-> 0, response |-> <<>>]

\* why the database refuses statement `name`, "none" when it runs
Refused(ctx, name, fault) ==
  IF ctx.h.st # "open" THEN "closed" ELSE IF fault = name THEN "fault" ELSE "none"

\* a failed statement aborts the transaction it ran on and throws
Throw(ctx, kind) ==
  [ctx EXCEPT !.threw = kind, !.h.st = IF @ = "open" THEN "aborted" ELSE @]

Logged(ctx, name) == [ctx EXCEPT !.log = Append(@, name)]

\* trx = etrx ? etrx : await Metadata.startTransaction()
Begin(ctx, etrxGiven, fault) ==
  IF etrxGiven THEN ctx
  ELSE IF fault = "startTransaction" THEN [ctx EXCEPT !.threw = "fault", !.h = NoTrx]
  ELSE Logged([ctx EXCEPT !.h = NewTrx], "startTransaction")

\* the commit without its guard
ShouldCommit_Always(etrxGiven) == TRUE

\* if (!etrx) await trx.commit()
ShouldCommit(etrxGiven) == ~etrxGiven

\* the rollback without its !etrx guard
ShouldRollback_AnyTrx(etrxGiven, h) == h.st # "none"

\* if (!etrx && trx) await trx.rollback()
ShouldRollback(etrxGiven, h) == ~etrxGiven /\ h.st # "none"

Commit(ctx, fault) ==
  IF Refused(ctx, "commit", fault) # "none" THEN Throw(ctx, Refused(ctx, "commit", fault))
  ELSE Logged([ctx EXCEPT !.c = ApplyTrx(ctx.c, ctx.h), !.h.st = "committed"], "commit")

Rollback(ctx) == Logged([ctx EXCEPT !.h.st = "rolledback"], "rollback")

\* the end of each service function: commit an own transaction; in the catch
\* block roll an own transaction back, and rethrow
Finish(ctx, etrxGiven, fault) ==
  LET done == IF ctx.threw = "none" /\ ShouldCommit(etrxGiven) THEN Commit(ctx, fault) ELSE ctx
  IN IF done.threw # "none" /\ ShouldRollback(etrxGiven, done.h) THEN Rollback(done) ELSE done

\* ------------------------------------------------------- statements
\* getObjectsByKeyValue(array, key, value): the rows of array with that key and value
GetObjectsByKeyValue(array, key, value) == {r \in array : r.key = key /\ r.value = value}

\* Metadata.query(trx).select()
SelectAllMetadata(ctx, fault) ==
  IF ctx.threw # "none" THEN ctx
  ELSE IF Refused(ctx, "selectMetadata", fault) # "none"
       THEN Throw(ctx, Refused(ctx, "selectMetadata", fault))
  ELSE Logged([ctx EXCEPT !.allMetadata = ViewMd(ctx.c, ctx.h)], "selectMetadata")

\* the forEach without its first branch: no input pair is taken for an existing one
ExistingMetadata_None(all, md) == <<>>

RECURSIVE ExistingMetadata(_, _)
\* the forEach of createMetadata: the input pairs already in db, with the row's id
ExistingMetadata(all, md) ==
  IF md = <<>> THEN <<>>
  ELSE LET found == GetObjectsByKeyValue(all, Head(md).key, Head(md).value)
       IN (IF found # {}
           THEN <<[id |-> (CHOOSE r \in found : TRUE).id, key |-> Head(md).key, value |-> Head(md).value]>>
           ELSE <<>>) \o ExistingMetadata(all, Tail(md))

RECURSIVE NewMetadata(_, _)
\* the forEach of createMetadata: the input pairs not in db
NewMetadata(all, md) ==
  IF md = <<>> THEN <<>>
  ELSE (IF GetObjectsByKeyValue(all, Head(md).key, Head(md).value) # {}
        THEN <<>>
        ELSE <<[key |-> Head(md).key, value |-> Head(md).value]>>) \o NewMetadata(all, Tail(md))

\* the constraint switched off
UniqueViolation_Off(visible, new) == 0

\* the unique (key, value) constraint of table metadata: the first index of the
\* rows to insert that repeats a pair of a visible row or of an earlier row, 0 if none
UniqueViolation(visible, new) ==
  LET bad == {i \in 1..Len(new) :
                \/ GetObjectsByKeyValue(visible, new[i].key, new[i].value) # {}
                \/ \E j \in 1..(i-1) : new[j] = new[i]}
  IN IF bad = {} THEN 0 ELSE CHOOSE i \in bad : \A k \in bad : i <= k

\* the insert waits for no other transaction
InsertMetadataBlocked_Never(ctx, new, others) == FALSE

\* the insert waits for another open transaction that holds the same pair
\* uncommitted, inserted or deleted
InsertMetadataBlocked(ctx, new, others) ==
  \E o \in others : \E i \in 1..Len(new) :
     GetObjectsByKeyValue(o.insMd \cup o.delMd, new[i].key, new[i].value) # {}

\* Metadata.query(trx).insert(newMetadata).returning('*')
InsertMetadata(ctx, new, fault, others) ==
  IF ctx.threw # "none" THEN ctx
  ELSE IF Refused(ctx, "insertMetadata", fault) # "none"
       THEN Throw(ctx, Refused(ctx, "insertMetadata", fault))
  ELSE IF InsertMetadataBlocked(ctx, new, others) THEN [ctx EXCEPT !.threw = "blocked"]
  ELSE LET v == UniqueViolation(ViewMd(ctx.c, ctx.h), new)
           rows == [i \in 1..Len(new) |->
                      [id |-> ctx.nid + i - 1, key |-> new[i].key, value |-> new[i].value]]
       IN IF v # 0 THEN Throw([ctx EXCEPT !.nid = @ + v], "unique")
          ELSE Logged([ctx EXCEPT !.h.insMd = @ \cup SeqToSet(rows),
                                  !.nid = @ + Len(new),
                                  !.response = rows], "insertMetadata")

\* the modifier left out: the joins of every version
FilterVersionId_Off(vm, versionId) == vm

\* .modify('filterVersionId', versionId): the joins of the version
FilterVersionId(vm, versionId) == {j \in vm : j.versionId = versionId}

\* VersionMetadata.query(trx).modify('filterVersionId', versionId)
SelectJoins(ctx, versionId, fault) ==
  IF ctx.threw # "none" THEN ctx
  ELSE IF Refused(ctx, "selectJoins", fault) # "none"
       THEN Throw(ctx, Refused(ctx, "selectJoins", fault))
  ELSE Logged([ctx EXCEPT !.associatedMetadata =
                 FilterVersionId(ViewVm(ctx.c, ctx.h), versionId)], "selectJoins")

\* VersionMetadata.query(trx).whereIn('metadataId', ids).modify('filterVersionId', versionId).delete()
DeleteJoins(ctx, versionId, ids, fault, others) ==
  LET rows == {j \in FilterVersionId(ViewVm(ctx.c, ctx.h), versionId) : j.metadataId \in ids}
  IN IF ctx.threw # "none" THEN ctx
     ELSE IF Refused(ctx, "deleteJoins", fault) # "none"
          THEN Throw(ctx, Refused(ctx, "deleteJoins", fault))
     ELSE IF \E o \in others : o.delVm \cap rows # {} THEN [ctx EXCEPT !.threw = "blocked"]
     ELSE Logged([ctx EXCEPT !.h.insVm = @ \ rows,
                             !.h.delVm = @ \cup (rows \cap ctx.c.vm),
                             !.dissociateMetadata = ids], "deleteJoins")

\* the query without its whereNull: every row is taken for an orphan
OrphanedMetadataIds_AnyRow(md, vm) == {r.id : r \in md}

\* the query with first(): one orphan at most is found
OrphanedMetadataIds_First(md, vm) ==
  LET ids == {r.id : r \in {m \in md : \A j \in vm : j.metadataId # m.id}}
  IN {i \in ids : \A k \in ids : i <= k}

\* the query with whereNotNull: no orphan is found
OrphanedMetadataIds_None(md, vm) == {}

\* Metadata.query(trx).withGraphJoined('versionMetadata').select('metadata.id')
\*   .whereNull('versionMetadata.metadataId')
OrphanedMetadataIds(md, vm) == {r.id : r \in {m \in md : \A j \in vm : j.metadataId # m.id}}

PruneSelect(ctx, fault) ==
  IF ctx.threw # "none" THEN ctx
  ELSE IF Refused(ctx, "pruneSelect", fault) # "none"
       THEN Throw(ctx, Refused(ctx, "pruneSelect", fault))
  ELSE Logged([ctx EXCEPT !.deletedMetadataIds =
                 OrphanedMetadataIds(ViewMd(ctx.c, ctx.h), ViewVm(ctx.c, ctx.h))], "pruneSelect")

\* Metadata.query(trx).delete().whereIn('id', ids); the foreign key of
\* version_metadata.metadataId decides what happens to joins that refer to a deleted row
PruneDelete(ctx, ids, fault, od, others) ==
  LET rows == {m \in ViewMd(ctx.c, ctx.h) : m.id \in ids}
      refs == {j \in ViewVm(ctx.c, ctx.h) : \E m \in rows : j.metadataId = m.id}
  IN IF ctx.threw # "none" THEN ctx
     ELSE IF Refused(ctx, "pruneDelete", fault) # "none"
          THEN Throw(ctx, Refused(ctx, "pruneDelete", fault))
     ELSE IF \E o \in others : \/ o.delMd \cap rows # {}
                               \/ \E j \in o.insVm : \E m \in rows : j.metadataId = m.id
          THEN [ctx EXCEPT !.threw = "blocked"]
     ELSE IF refs # {} /\ od = "NO ACTION" THEN Throw(ctx, "fk")
     ELSE Logged([ctx EXCEPT !.h.insMd = @ \ rows,
                             !.h.delMd = @ \cup (rows \cap ctx.c.md),
                             !.h.insVm = @ \ refs,
                             !.h.delVm = @ \cup (refs \cap ctx.c.vm),
                             !.deleted = Cardinality(rows)], "pruneDelete")

\* the primary key (versionId, metadataId) and the foreign key to metadata of
\* the rows to insert into version_metadata: "pk", "fk" or "none"
JoinViolation(md, vm, versionId, ids) ==
  IF \E i \in 1..Len(ids) : \A m \in md : m.id # ids[i] THEN "fk"
  ELSE IF \/ \E i, j \in 1..Len(ids) : i # j /\ ids[i] = ids[j]
          \/ \E i \in 1..Len(ids) : \E r \in vm : r.versionId = versionId /\ r.metadataId = ids[i]
       THEN "pk"
  ELSE "none"

\* VersionMetadata.query(trx).insert(newJoins.map(({ id }) => ({ versionId, metadataId: id, createdBy })))
InsertJoins(ctx, versionId, newJoins, createdBy, fault, others) ==
  LET ids == MapIds(newJoins)
      rows == [i \in 1..Len(ids) |->
                 [versionId |-> versionId, metadataId |-> ids[i], createdBy |-> createdBy]]
      v == JoinViolation(ViewMd(ctx.c, ctx.h), ViewVm(ctx.c, ctx.h), versionId, ids)
  IN IF ctx.threw # "none" THEN ctx
     ELSE IF Refused(ctx, "insertJoins", fault) # "none"
          THEN Throw(ctx, Refused(ctx, "insertJoins", fault))
     ELSE IF \E o \in others : \E i \in 1..Len(ids) :
                \/ \E m \in o.delMd : m.id = ids[i]
                \/ \E r \in o.insVm \cup o.delVm : r.versionId = versionId /\ r.metadataId = ids[i]
          THEN [ctx EXCEPT !.threw = "blocked"]
     ELSE IF v # "none" THEN Throw(ctx, v)
     ELSE Logged([ctx EXCEPT !.h.insVm = @ \cup SeqToSet(rows), !.response = rows], "insertJoins")


\* ------------------------------------------------- service functions
\* createMetadata(metadata, etrx): ctx.h is etrx when one is given
CreateMetadata(ctx, md, etrxGiven, fault, others) ==
  LET b == Begin(ctx, etrxGiven, fault)
      s == SelectAllMetadata(b, fault)
      existingMetadata == ExistingMetadata(s.allMetadata, md)
      newMetadata == NewMetadata(s.allMetadata, md)
      i == IF Len(newMetadata) > 0 THEN InsertMetadata(s, newMetadata, fault, others)
           ELSE [s EXCEPT !.response = <<>>]
      r == IF i.threw = "none" THEN [i EXCEPT !.response = existingMetadata \o i.response] ELSE i
      f == Finish(r, etrxGiven, fault)
  IN IF etrxGiven THEN f ELSE [f EXCEPT !.h = ctx.h]

\* pruneOrphanedMetadata(etrx)
PruneOrphanedMetadata(ctx, etrxGiven, fault, od, others) ==
  LET b == Begin(ctx, etrxGiven, fault)
      s == PruneSelect(b, fault)
      d == PruneDelete(s, s.deletedMetadataIds, fault, od, others)
      f == Finish(d, etrxGiven, fault)
  IN IF etrxGiven THEN f ELSE [f EXCEPT !.h = ctx.h]

\* currentUserId = SYSTEM_USER when the argument is omitted
CurrentUserId(user) == IF user = "undefined" THEN SYSTEM_USER ELSE user

\* associatedMetadata.filter(({ metadataId }) => !dbMetadata.some(({ id }) => id === metadataId))
DissociateMetadata(associatedMetadata, dbMetadata) ==
  {j \in associatedMetadata : ~ \E i \in 1..Len(dbMetadata) : dbMetadata[i].id = j.metadataId}

RECURSIVE FilterNotJoined(_, _)
FilterNotJoined(dbMetadata, associatedMetadata) ==
  IF dbMetadata = <<>> THEN <<>>
  ELSE (IF \E j \in associatedMetadata : j.metadataId = Head(dbMetadata).id
        THEN <<>> ELSE <<Head(dbMetadata)>>) \o FilterNotJoined(Tail(dbMetadata), associatedMetadata)

\* the filter left out: every resolved row is joined again
NewJoins_All(associatedMetadata, dbMetadata) == dbMetadata

\* associatedMetadata.length ? dbMetadata.filter(({ id }) => !associatedMetadata.some(...)) : dbMetadata
NewJoins(associatedMetadata, dbMetadata) ==
  IF associatedMetadata # {} THEN FilterNotJoined(dbMetadata, associatedMetadata) ELSE dbMetadata

\* the joins are deleted and the orphaned rows are left to a later pruning
DissociateAndPrune_NoPrune(ctx, versionId, ids, fault, od, others) ==
  DeleteJoins(ctx, versionId, ids, fault, others)

\* if (dissociateMetadata.length): the joins are deleted, then
\* await service.pruneOrphanedMetadata(trx) runs on the call's transaction
DissociateAndPrune(ctx, versionId, ids, fault, od, others) ==
  PruneOrphanedMetadata(DeleteJoins(ctx, versionId, ids, fault, others), TRUE, fault, od, others)

\* if (metadata && metadata.length): the incoming array is reconciled only then
HasMetadata(md) == Len(md) > 0

\* associateMetadata(versionId, metadata, currentUserId, etrx)
AssociateMetadata(ctx, versionId, md, user, etrxGiven, fault, od, others) ==
  LET b == Begin(ctx, etrxGiven, fault)
      created == CreateMetadata(b, md, TRUE, fault, others)
      cm == [created EXCEPT !.dbMetadata = created.response]
      dbMetadata == cm.dbMetadata
      sj == SelectJoins(cm, versionId, fault)
      dissociateMetadata == DissociateMetadata(sj.associatedMetadata, dbMetadata)
      dj == IF sj.associatedMetadata # {} /\ dissociateMetadata # {}
            THEN DissociateAndPrune(sj, versionId, {j.metadataId : j \in dissociateMetadata},
                                    fault, od, others)
            ELSE sj
      newJoins == NewJoins(sj.associatedMetadata, dbMetadata)
      ij == IF Len(newJoins) > 0
            THEN InsertJoins([dj EXCEPT !.response = <<>>], versionId, newJoins, CurrentUserId(user), fault, others)
            ELSE [dj EXCEPT !.response = <<>>]
      body == IF HasMetadata(md) THEN ij ELSE [b EXCEPT !.response = <<>>]
  IN Finish(body, etrxGiven, fault)

\* ------------------------------------------------------ the service's calls
NoCall ==
  [op |-> "none", versionId |-> "none", md |-> <<>>, user |-> "undefined", etrxGiven |-> FALSE,
   log |-> <<>>, threw |-> "none", dissociateMetadata |-> {}, deleted |-> 0,
   dbMetadata |-> <<>>, pruned |-> {}, response |-> <<>>]

Committed == [md |-> metadata, vm |-> versionMetadata]

\* the tables as the last call left them for its caller: through the caller's
\* transaction when the call ran on it, else the committed tables
Current == IF etrx.st = "none" THEN Committed ELSE ApplyTrx(Committed, etrx)

\* the (key, value) pairs joined to version v in tables t
JoinedPairs(t, v) ==
  {[key |-> m.key, value |-> m.value] :
     m \in {r \in t.md : \E j \in t.vm : j.versionId = v /\ j.metadataId = r.id}}

\* the call runs on the caller's open transaction, or on its own while the caller holds none
CanCall(etrxGiven) == IF etrxGiven THEN etrx.st = "open" ELSE etrx.st = "none"

Finished(r, op, versionId, md, user, etrxGiven) ==
  /\ r.threw # "blocked"
  /\ r.nid <= MaxId + 1
  /\ metadata' = r.c.md
  /\ versionMetadata' = r.c.vm
  /\ nextId' = r.nid
  /\ etrx' = IF etrxGiven THEN r.h ELSE etrx
  /\ last' = [op |-> op, versionId |-> versionId, md |-> md, user |-> user,
              etrxGiven |-> etrxGiven, log |-> r.log, threw |-> r.threw,
              dissociateMetadata |-> r.dissociateMetadata, deleted |-> r.deleted,
              dbMetadata |-> r.dbMetadata, pruned |-> r.deletedMetadataIds,
              response |-> r.response]
  /\ UNCHANGED <<onDelete, pc, loc, version, clock, fetched, otherVars>>

CallAssociateMetadata(inputs, users, handles, faults) ==
  \E versionId \in Versions, md \in inputs, user \in users, etrxGiven \in handles, fault \in faults :
    /\ CanCall(etrxGiven)
    /\ Finished(AssociateMetadata(Ctx0(Committed, etrx, nextId), versionId, md, user,
                                  etrxGiven, fault, onDelete, {}),
                "associateMetadata", versionId, md, user, etrxGiven)

CallPruneOrphanedMetadata(handles, faults) ==
  \E etrxGiven \in handles, fault \in faults :
    /\ CanCall(etrxGiven)
    /\ Finished(PruneOrphanedMetadata(Ctx0(Committed, etrx, nextId), etrxGiven, fault, onDelete, {}),
                "pruneOrphanedMetadata", "none", <<>>, "undefined", etrxGiven)

CallCreateMetadata(inputs, handles, faults) ==
  \E md \in inputs, etrxGiven \in handles, fault \in faults :
    /\ CanCall(etrxGiven)
    /\ Finished(CreateMetadata(Ctx0(Committed, etrx, nextId), md, etrxGiven, fault, {}),
                "createMetadata", "none", md, "undefined", etrxGiven)

\* a caller of the service opens the transaction it will pass as etrx
CallerBegin ==
  /\ etrx.st = "none"
  /\ etrx' = NewTrx
  /\ last' = [NoCall EXCEPT !.op = "callerBegin"]
  /\ UNCHANGED <<metadata, versionMetadata, nextId, onDelete, pc, loc, version, clock, fetched, otherVars>>

\* the caller commits its transaction; the database turns the commit of an
\* aborted transaction into a rollback
CallerCommit ==
  /\ etrx.st \in {"open", "aborted"}
  /\ metadata' = IF etrx.st = "open" THEN ViewMd(Committed, etrx) ELSE metadata
  /\ versionMetadata' = IF etrx.st = "open" THEN ViewVm(Committed, etrx) ELSE versionMetadata
  /\ etrx' = NoTrx
  /\ last' = [NoCall EXCEPT !.op = "callerCommit"]
  /\ UNCHANGED <<nextId, onDelete, pc, loc, version, clock, fetched, otherVars>>

CallerRollback ==
  /\ etrx.st \in {"open", "aborted"}
  /\ etrx' = NoTrx
  /\ last' = [NoCall EXCEPT !.op = "callerRollback"]
  /\ UNCHANGED <<metadata, versionMetadata, nextId, onDelete, pc, loc, version, clock, fetched, otherVars>>

Procs == {"p1", "p2"}
\* no fetch has returned
NoFetch == [op |-> "none", objId |-> {}, userId |-> "undefined", threw |-> "none", rows |-> {}]

\* no call of the user service has returned
NoUserCall == [op |-> "none", identityId |-> "none", idp |-> "undefined", email |-> "none", calls |-> <<>>]

\* no row of table user
NoUser == [userId |-> "none", identityId |-> "none", idp |-> "undefined", email |-> "none"]

\* the keys of the bucket the storage service is called with
FilePaths == {"p1", "p2"}

S3VersionIds == {"undefined", "1234"}

\* the metadata maps a caller passes, as opaque values; "undefined" is no map
MetadataMaps == {"undefined", "m1", "m2"}

\* the entries of a tags object, in the order of Object.entries; the first
\* value holds a character that URL-encoding changes
TagEntries == << <<"foo", "a b">>, <<"bar", "bar">> >>

\* the tags argument: not given, or a tags object
NoTags == [given |-> FALSE, entries |-> <<>>]
TagArgs == {NoTags, [given |-> TRUE, entries |-> TagEntries]}

\* copyObject's metadata and metadataDirective as its callers pass them: a map
\* goes with every REPLACE
MetadataChoices ==
  {[map |-> "undefined", directive |-> "undefined"], [map |-> "m1", directive |-> "undefined"],
   [map |-> "m1", directive |-> "COPY"], [map |-> "m1", directive |-> "REPLACE"],
   [map |-> "m2", directive |-> "REPLACE"]}

\* copyObject's tags and taggingDirective as its callers pass them
TaggingChoices ==
  {[tags |-> NoTags, directive |-> "undefined"],
   [tags |-> [given |-> TRUE, entries |-> TagEntries], directive |-> "undefined"],
   [tags |-> [given |-> TRUE, entries |-> TagEntries], directive |-> "COPY"],
   [tags |-> [given |-> TRUE, entries |-> TagEntries], directive |-> "REPLACE"]}

\* a parameter of a command that was left out
NotSent == [given |-> FALSE, value |-> <<>>]

\* a key of the bucket that holds no object
NoObject == [present |-> FALSE, metadata |-> "undefined", tags |-> <<>>]

\* the arguments of a storage service call, all left out but filePath
NoArgs ==
  [filePath |-> "none", copySource |-> "undefined", metadata |-> "undefined",
   metadataDirective |-> "undefined", tags |-> NoTags, taggingDirective |-> "undefined",
   tagSet |-> NotSent, s3VersionId |-> "undefined"]

\* the call resolved
Ok == [kind |-> "ok", op |-> "none", key |-> "none", cause |-> "none"]

NoStorageCall == [op |-> "none", args |-> NoArgs, sent |-> <<>>, outcome |-> Ok]

\* no request has been answered
NoRequest ==
  [route |-> "none", query |-> [bucketId |-> [kind |-> "absent", ids |-> <<>>],
                                objectPerms |-> "absent", permCode |-> "absent",
                                userId |-> [kind |-> "absent", ids |-> <<>>]],
   ran |-> <<>>, endedBy |-> "none", status |-> 0]

\* a login that has not started
NoLogin ==
  [pc |-> "idle", token |-> [sub |-> "none", identity_provider |-> "undefined", email |-> "none"],
   oldUser |-> NoUser]

\* the gate has answered no request
NoResponse == [status |-> 0, details |-> "none", routed |-> FALSE]

\* the process before app.js is evaluated: state as its literal gives it, no timer, no check
NotLoaded ==
  [loaded |-> FALSE, dbEnabled |-> FALSE, oidc |-> FALSE,
   ready |-> FALSE, shutdown |-> FALSE, connections |-> {},
   exitCode |-> 0, exited |-> FALSE,
   initPending |-> FALSE, probe |-> FALSE, checks |-> 0,
   shutdownTimers |-> 0, hardExitTimers |-> 0, closeCalls |-> 0, closePending |-> 0,
   cleanups |-> 0, signalled |-> FALSE,
   event |-> "none", result |-> "none", response |-> NoResponse]

NoLoc == [versionId |-> "none", md |-> <<>>, ctx |-> Ctx0([md |-> {}, vm |-> {}], NoTrx, 0)]

Init ==
  /\ metadata = {}
  /\ versionMetadata = {}
  /\ nextId = 1
  /\ onDelete \in {"CASCADE", "NO ACTION"}
  /\ etrx = NoTrx
  /\ last = NoCall
  /\ pc = [p \in Procs |-> "idle"]
  /\ loc = [p \in Procs |-> NoLoc]
  /\ version = {}
  /\ clock = 0
  /\ fetched = NoFetch
  /\ perm = {}
  /\ http = NoRequest
  /\ userTable = {}
  /\ identityProvider = {}
  /\ userLast = NoUserCall
  /\ logins = [p \in Procs |-> NoLogin]
  /\ s3Store = [k \in FilePaths |-> NoObject]
  /\ storageLast = NoStorageCall
  /\ app = NotLoaded

\* every call opens its own transaction and the database fails no statement
Next ==
  \/ CallAssociateMetadata(Inputs, {"undefined"}, {FALSE}, {"none"})
  \/ CallPruneOrphanedMetadata({FALSE}, {"none"})
  \/ CallCreateMetadata(Inputs, {FALSE}, {"none"})

Spec == Init /\ [][Next]_vars

\* calls run on their own transaction or on the one their caller holds open, and
\* the database may fail any one statement of a call
NextTrx ==
  \/ CallAssociateMetadata(ShortInputs, {"undefined"}, BOOLEAN, Faults)
  \/ CallPruneOrphanedMetadata(BOOLEAN, Faults)
  \/ CallCreateMetadata(ShortInputs, BOOLEAN, Faults)
  \/ CallerBegin
  \/ CallerCommit
  \/ CallerRollback

SpecTrx == Init /\ [][NextTrx]_vars


\* ------------------------------------- concurrent associateMetadata calls
\* Each await of associateMetadata is one step. A statement reads the rows
\* committed when it runs and its own transaction's writes (read committed); a
\* statement that meets a row another open transaction holds waits for it.

\* the version each concurrent caller works on
VersionOf(p) == IF p = "p1" THEN "V1" ELSE "V2"

\* the other calls' open transactions
Others(p) == {loc[q].ctx.h : q \in {r \in Procs \ {p} : loc[r].ctx.h.st = "open"}}

\* the call's context as its next statement finds it
Now(p) == [loc[p].ctx EXCEPT !.c = Committed, !.nid = nextId]

\* where the call goes after createMetadata, and after the joins are read
AfterJoinsRead(ctx) ==
  IF ctx.associatedMetadata # {} /\ DissociateMetadata(ctx.associatedMetadata, ctx.dbMetadata) # {}
  THEN "deleteJoins"
  ELSE IF Len(NewJoins(ctx.associatedMetadata, ctx.dbMetadata)) > 0 THEN "insertJoins" ELSE "commit"

AfterPrune(ctx) ==
  IF Len(NewJoins(ctx.associatedMetadata, ctx.dbMetadata)) > 0 THEN "insertJoins" ELSE "commit"

\* what the call keeps between two statements: its transaction and its locals
Kept(r) == [r EXCEPT !.c = [md |-> {}, vm |-> {}], !.nid = 0, !.response = <<>>]

\* the statement has run: r is the context it leaves, to the next statement or to the catch block
Stepped(p, r, next) ==
  /\ r.threw # "blocked"
  /\ r.nid <= MaxId + 1
  /\ nextId' = r.nid
  /\ loc' = [loc EXCEPT ![p].ctx = Kept(r)]
  /\ pc' = [pc EXCEPT ![p] = IF r.threw = "none" THEN next ELSE "rollback"]
  /\ UNCHANGED <<metadata, versionMetadata, onDelete, etrx, last, version, clock, fetched, otherVars>>

Returned(p, r) ==
  [op |-> "associateMetadata", versionId |-> loc[p].versionId, md |-> loc[p].md,
   user |-> "undefined", etrxGiven |-> FALSE, log |-> r.log, threw |-> r.threw,
   dissociateMetadata |-> r.dissociateMetadata, deleted |-> r.deleted,
   dbMetadata |-> r.dbMetadata, pruned |-> r.deletedMetadataIds, response |-> r.response]

\* trx = await Metadata.startTransaction()
StartAssociate(p) ==
  \E md \in ShortInputs :
    /\ pc[p] = "idle"
    /\ loc' = [loc EXCEPT ![p] = [versionId |-> VersionOf(p), md |-> md,
                                  ctx |-> Kept(Begin(Ctx0(Committed, NoTrx, nextId), FALSE, "none"))]]
    /\ pc' = [pc EXCEPT ![p] = IF HasMetadata(md) THEN "selectMetadata" ELSE "commit"]
    /\ UNCHANGED <<metadata, versionMetadata, nextId, onDelete, etrx, last, version, clock, fetched, otherVars>>

\* createMetadata: const allMetadata = await Metadata.query(trx).select()
StepSelectMetadata(p) ==
  /\ pc[p] = "selectMetadata"
  /\ LET s == SelectAllMetadata(Now(p), "none")
         r == [s EXCEPT !.dbMetadata = ExistingMetadata(s.allMetadata, loc[p].md)]
     IN Stepped(p, r, IF Len(NewMetadata(s.allMetadata, loc[p].md)) > 0
                      THEN "insertMetadata" ELSE "selectJoins")

\* createMetadata: await Metadata.query(trx).insert(newMetadata).returning('*')
StepInsertMetadata(p) ==
  /\ pc[p] = "insertMetadata"
  /\ LET i == InsertMetadata(Now(p), NewMetadata(loc[p].ctx.allMetadata, loc[p].md), "none", Others(p))
         r == IF i.threw = "none" THEN [i EXCEPT !.dbMetadata = @ \o i.response] ELSE i
     IN Stepped(p, r, "selectJoins")

\* const associatedMetadata = await VersionMetadata.query(trx).modify('filterVersionId', versionId)
StepSelectJoins(p) ==
  /\ pc[p] = "selectJoins"
  /\ LET r == SelectJoins(Now(p), loc[p].versionId, "none")
     IN Stepped(p, r, AfterJoinsRead(r))

\* await VersionMetadata.query(trx).whereIn(...).modify('filterVersionId', versionId).delete()
StepDeleteJoins(p) ==
  /\ pc[p] = "deleteJoins"
  /\ LET ctx == Now(p)
         ids == {j.metadataId : j \in DissociateMetadata(ctx.associatedMetadata, ctx.dbMetadata)}
     IN Stepped(p, DeleteJoins(ctx, loc[p].versionId, ids, "none", Others(p)), "pruneSelect")

\* pruneOrphanedMetadata: the select of the orphaned ids
StepPruneSelect(p) ==
  /\ pc[p] = "pruneSelect"
  /\ Stepped(p, PruneSelect(Now(p), "none"), "pruneDelete")

\* pruneOrphanedMetadata: the delete of those ids
StepPruneDelete(p) ==
  /\ pc[p] = "pruneDelete"
  /\ LET r == PruneDelete(Now(p), loc[p].ctx.deletedMetadataIds, "none", onDelete, Others(p))
     IN Stepped(p, r, AfterPrune(r))

\* await VersionMetadata.query(trx).insert(newJoins.map(...))
StepInsertJoins(p) ==
  /\ pc[p] = "insertJoins"
  /\ LET ctx == Now(p)
     IN Stepped(p, InsertJoins(ctx, loc[p].versionId, NewJoins(ctx.associatedMetadata, ctx.dbMetadata),
                               CurrentUserId("undefined"), "none", Others(p)), "commit")

\* if (!etrx) await trx.commit(); return
StepCommit(p) ==
  /\ pc[p] = "commit"
  /\ LET r == Commit(Now(p), "none")
     IN /\ metadata' = r.c.md
        /\ versionMetadata' = r.c.vm
        /\ loc' = [loc EXCEPT ![p] = NoLoc]
        /\ pc' = [pc EXCEPT ![p] = "idle"]
        /\ last' = Returned(p, r)
  /\ UNCHANGED <<nextId, onDelete, etrx, version, clock, fetched, otherVars>>

\* catch (err): if (!etrx && trx) await trx.rollback(); throw err
StepRollback(p) ==
  /\ pc[p] = "rollback"
  /\ LET r == Rollback(loc[p].ctx)
     IN /\ loc' = [loc EXCEPT ![p] = NoLoc]
        /\ pc' = [pc EXCEPT ![p] = "idle"]
        /\ last' = Returned(p, r)
  /\ UNCHANGED <<metadata, versionMetadata, nextId, onDelete, etrx, version, clock, fetched, otherVars>>

NextConc ==
  \E p \in Procs :
    \/ StartAssociate(p)
    \/ StepSelectMetadata(p)
    \/ StepInsertMetadata(p)
    \/ StepSelectJoins(p)
    \/ StepDeleteJoins(p)
    \/ StepPruneSelect(p)
    \/ StepPruneDelete(p)
    \/ StepInsertJoins(p)
    \/ StepCommit(p)
    \/ StepRollback(p)

SpecConc == Init /\ [][NextConc]_vars

\* ------------------------------------------ fetchMetadataForObject

\* the version graph without its where('deleteMarker', false)
LatestVersions_AnyVersion(o) ==
  {v \in version : v.objectId = o /\ \A w \in version : w.objectId = o => w.createdAt <= v.createdAt}

\* modifyGraph('version'): orderBy(objectId, createdAt desc).where('deleteMarker', false)
\*   .distinctOn('version.objectId'): the versions of object o the database may return as the
\* one row of o, those with the greatest createdAt among the versions that are no delete marker
LatestVersions(o) ==
  {v \in version : /\ v.objectId = o
                   /\ ~v.deleteMarker
                   /\ \A w \in version : (w.objectId = o /\ ~w.deleteMarker) => w.createdAt <= v.createdAt}

\* the rows of table object: an object is there once it has a version
ObjectRows == {v.objectId : v \in version}

\* object.bucketId: both objects are in bucket B1, bucket B2 holds none
BucketOf(o) == "B1"

\* the hasPermission modifier: no restriction without a userId; with one, the
\* objects for which the user holds a grant of permCode on the object or on its bucket
HasPermission(o, userId, permCode) ==
  \/ userId = "undefined"
  \/ \E g \in perm : /\ g.userId = userId
                      /\ g.permCode = permCode
                      /\ \/ g.scope = "object" /\ g.id = o
                         \/ g.scope = "bucket" /\ g.id = BucketOf(o)

\* the read without its hasPermission modifier
SelectedObjects_Unscoped(objId, userId) == objId \cap ObjectRows

\* .modify('filterIds', params.objId).modify('hasPermission', params.userId, 'READ')
SelectedObjects(objId, userId) == {o \in objId \cap ObjectRows : HasPermission(o, userId, "READ")}

\* fetchMetadataForObject({ objId, userId }), params.metadata undefined: pick is
\* the version the database returned for each selected object that has one;
\* row.version[0].metadata throws for an object that has none
FetchMetadataForObject(objId, userId, pick) ==
  LET selected == SelectedObjects(objId, userId)
  IN IF \E o \in selected : LatestVersions(o) = {}
     THEN [op |-> "fetchMetadataForObject", objId |-> objId, userId |-> userId,
           threw |-> "TypeError", rows |-> {}]
     ELSE [op |-> "fetchMetadataForObject", objId |-> objId, userId |-> userId, threw |-> "none",
           rows |-> {[objectId |-> o, metadata |-> JoinedPairs(Committed, pick[o].id)] :
                     o \in selected}]

CallFetchMetadataForObject(objIds, users) ==
  \E objId \in objIds, userId \in users :
    \E pick \in [SelectedObjects(objId, userId) -> version] :
      /\ \A o \in SelectedObjects(objId, userId) :
            LatestVersions(o) # {} => pick[o] \in LatestVersions(o)
      /\ fetched' = FetchMetadataForObject(objId, userId, pick)
      /\ UNCHANGED <<metadata, versionMetadata, nextId, onDelete, etrx, last, pc, loc, version, clock, otherVars>>

\* the database clock advances
Tick ==
  /\ clock < MaxClock
  /\ clock' = clock + 1
  /\ fetched' = NoFetch
  /\ UNCHANGED <<metadata, versionMetadata, nextId, onDelete, etrx, last, pc, loc, version, otherVars>>

\* the id the next version gets: the first one no version holds
NextVersionId ==
  VersionIds[CHOOSE i \in 1..Len(VersionIds) :
               /\ \A v \in version : v.id # VersionIds[i]
               /\ \A k \in 1..(i - 1) : \E v \in version : v.id = VersionIds[k]]

\* the version row of object o and what the call r of associateMetadata left are committed
VersionCreated(r, o, md) ==
  /\ r.threw = "none"
  /\ r.nid <= MaxId + 1
  /\ version' = version \cup {[id |-> NextVersionId, objectId |-> o, createdAt |-> clock,
                               deleteMarker |-> FALSE]}
  /\ metadata' = r.c.md
  /\ versionMetadata' = r.c.vm
  /\ nextId' = r.nid
  /\ last' = [op |-> "associateMetadata", versionId |-> NextVersionId, md |-> md,
              user |-> "undefined", etrxGiven |-> FALSE, log |-> r.log, threw |-> r.threw,
              dissociateMetadata |-> r.dissociateMetadata, deleted |-> r.deleted,
              dbMetadata |-> r.dbMetadata, pruned |-> r.deletedMetadataIds,
              response |-> r.response]
  /\ fetched' = NoFetch
  /\ UNCHANGED <<onDelete, etrx, pc, loc, clock, otherVars>>

\* an upload creates the next version of object o and associates its metadata
CreateVersion(inputs) ==
  /\ Cardinality(version) < Len(VersionIds)
  /\ \E o \in Objects, md \in inputs :
       VersionCreated(AssociateMetadata(Ctx0(Committed, NoTrx, nextId), NextVersionId, md,
                                        "undefined", FALSE, "none", onDelete, {}), o, md)

\* a delete on a versioning bucket appends a delete-marker version to object o
CreateDeleteMarker ==
  \E o \in ObjectRows :
    /\ Cardinality(version) < Len(VersionIds)
    /\ version' = version \cup {[id |-> NextVersionId, objectId |-> o,
                                 createdAt |-> clock, deleteMarker |-> TRUE]}
    /\ fetched' = NoFetch
    /\ UNCHANGED <<metadata, versionMetadata, nextId, onDelete, etrx, last, pc, loc, clock, otherVars>>

NextFetch ==
  \/ Tick
  \/ CreateVersion(ShortInputs)
  \/ CreateDeleteMarker
  \/ CallFetchMetadataForObject(SUBSET Objects \ {{}}, {"undefined"})

SpecFetch == Init /\ [][NextFetch]_vars

\* one version is deleted by its id, its joins with it; the object row goes
\* with its last version
DeleteVersion ==
  \E v \in version :
    /\ version' = version \ {v}
    /\ versionMetadata' = {j \in versionMetadata : j.versionId # v.id}
    /\ fetched' = NoFetch
    /\ UNCHANGED <<metadata, nextId, onDelete, etrx, last, pc, loc, clock, otherVars>>

\* versions are created and deleted, and the read runs for any caller
NextCatalog ==
  \/ CreateVersion(ShortInputs)
  \/ CreateDeleteMarker
  \/ DeleteVersion
  \/ CallFetchMetadataForObject(SUBSET Objects \ {{}}, {"undefined"})

SpecCatalog == Init /\ [][NextCatalog]_vars

\* ------------------------------------------------ permission-scoped reads
\* the scopes a grant is made on: an object or a bucket
Scopes == [scope : {"object"}, id : Objects] \cup [scope : {"bucket"}, id : Buckets]

\* the body of an addPermissions request: [{ userId, permCode }]
GrantBodies(maxBody) == UNION {[1..n -> [userId : Users, permCode : PermCodes]] : n \in 1..maxBody}

\* no grant is taken for an existing one
AlreadyGranted_Never(rows, s, g) == FALSE

\* a row holds the grant of g.permCode to g.userId on scope s
AlreadyGranted(rows, s, g) ==
  \E r \in rows : r.scope = s.scope /\ r.id = s.id /\ r.userId = g.userId /\ r.permCode = g.permCode

\* permission.id of the next row: the least id no row holds
FreeRowId(rows) ==
  CHOOSE n \in 1..(Cardinality(rows) + 1) :
    /\ \A r \in rows : r.rowId # n
    /\ \A k \in 1..(n - 1) : \E r \in rows : r.rowId = k

RECURSIVE AddPermissions(_, _, _)
\* addPermissions(scopeId, grants[]): the grants no row holds yet are inserted,
\* a grant that a row holds already is passed over
AddPermissions(rows, s, body) ==
  IF body = <<>> THEN rows
  ELSE AddPermissions(
         IF AlreadyGranted(rows, s, Head(body)) THEN rows
         ELSE rows \cup {[rowId |-> FreeRowId(rows), scope |-> s.scope, id |-> s.id,
                          userId |-> Head(body).userId, permCode |-> Head(body).permCode]},
         s, Tail(body))

\* PUT /:objectId, PUT /:bucketId: the validated body reaches addPermissions
CallAddPermissions(maxBody) ==
  \E s \in Scopes, body \in GrantBodies(maxBody) :
    /\ Cardinality(AddPermissions(perm, s, body)) <= MaxGrants
    /\ perm' = AddPermissions(perm, s, body)
    /\ fetched' = [op |-> "addPermissions", scope |-> s, body |-> body, threw |-> "none",
                   inserted |-> AddPermissions(perm, s, body) \ perm]
    /\ UNCHANGED <<metadata, versionMetadata, nextId, onDelete, etrx, last, pc, loc, version, clock, http, userVars, storageVars, app>>

\* addPermissions with one grant
AddPermission == CallAddPermissions(1)

\* removePermissions: a grant is deleted
RemovePermission ==
  \E g \in perm :
    /\ perm' = perm \ {g}
    /\ fetched' = NoFetch
    /\ UNCHANGED <<metadata, versionMetadata, nextId, onDelete, etrx, last, pc, loc, version, clock, http, userVars, storageVars, app>>

NextPerm ==
  \/ CreateVersion({<<>>})
  \/ AddPermission
  \/ RemovePermission
  \/ CallFetchMetadataForObject(SUBSET Objects \ {{}}, Users \cup {"undefined"})

SpecPerm == Init /\ [][NextPerm]_vars

\* ------------------------------------------ fetchMetadataForVersion
\* params.versionIds: left out, or a list of version ids
VersionFilters ==
  {[given |-> FALSE, ids |-> {}]}
    \cup {[given |-> TRUE, ids |-> ids] :
            ids \in {x \in SUBSET SeqToSet(VersionIds) : x # {} /\ Cardinality(x) <= MaxIds}}

\* .modify('filterId', params.versionIds): no restriction without the parameter
FilterId(rows, versionIds) == IF versionIds.given THEN {v \in rows : v.id \in versionIds.ids} ELSE rows

\* the read without its whereNotNull('object.id')
ReadableVersion_Any(v, userId) == TRUE

\* if (params.userId): the object is joined under hasPermission(userId, 'READ')
\* and whereNotNull('object.id') keeps the versions whose object was joined
ReadableVersion(v, userId) ==
  IF userId # "undefined" THEN HasPermission(v.objectId, userId, "READ") ELSE TRUE

\* a row of the result as the query returns it: the object graph is there
\* when the query joined it
JoinedRow(v, userId) ==
  IF userId # "undefined"
  THEN [versionId |-> v.id, metadata |-> JoinedPairs(Committed, v.id), object |-> [id |-> v.objectId]]
  ELSE [versionId |-> v.id, metadata |-> JoinedPairs(Committed, v.id)]

\* const { object, ...data } = row; return data
WithoutObject(row) == [f \in DOMAIN row \ {"object"} |-> row[f]]

\* the orders .orderBy('version.createdAt', 'desc') may return the rows in
CreatedAtDesc(rows) ==
  {q \in [1..Cardinality(rows) -> rows] :
     /\ \A i, j \in DOMAIN q : i # j => q[i] # q[j]
     /\ \A i, j \in DOMAIN q : i < j => q[i].createdAt >= q[j].createdAt}

\* fetchMetadataForVersion({ versionIds, userId }), params.metadata and
\* params.s3VersionIds undefined; sorted is the order the database returned
FetchMetadataForVersion(versionIds, userId, sorted) ==
  [op |-> "fetchMetadataForVersion", versionIds |-> versionIds, userId |-> userId, threw |-> "none",
   rows |-> [i \in DOMAIN sorted |-> WithoutObject(JoinedRow(sorted[i], userId))]]

CallFetchMetadataForVersion(filters, users) ==
  \E versionIds \in filters, userId \in users :
    \E sorted \in CreatedAtDesc({v \in FilterId(version, versionIds) : ReadableVersion(v, userId)}) :
      /\ fetched' = FetchMetadataForVersion(versionIds, userId, sorted)
      /\ UNCHANGED <<metadata, versionMetadata, nextId, onDelete, etrx, last, pc, loc, version, clock, otherVars>>

\* versions are created, grants made and revoked, and the read runs for a
\* user or for none
NextVersionFetch ==
  \/ CreateVersion({md \in ShortInputs : Len(md) = 1 /\ md[1].value = "a"})
  \/ AddPermission
  \/ RemovePermission
  \/ CallFetchMetadataForVersion(VersionFilters, UserArgs)

SpecVersionFetch == Init /\ [][NextVersionFetch]_vars

\* ------------------------------------------------- searchMetadata
\* params.metadata: left out, or one key/value pair to filter on
MetadataFilters ==
  {[given |-> FALSE, pairs |-> {}]} \cup {[given |-> TRUE, pairs |-> {p}] : p \in Pair}

\* .modify('filterKey', { metadata }): the rows whose key is one of the given keys
FilterKey(rows, filter) ==
  IF filter.given THEN {m \in rows : \E p \in filter.pairs : p.key = m.key} ELSE rows

\* .modify('filterKeyValue', { metadata }): the rows that hold one of the given pairs
FilterKeyValue(rows, filter) ==
  IF filter.given THEN {m \in rows : \E p \in filter.pairs : p.key = m.key /\ p.value = m.value}
  ELSE rows

\* the select without the mask: key and value whatever params.privacyMask is
SelectColumns_KeyValue(privacyMask) == {"key", "value"}

\* if (params.privacyMask) select('key') else select('key', 'value')
SelectColumns(privacyMask) == IF privacyMask THEN {"key"} ELSE {"key", "value"}

\* searchMetadata({ privacyMask, metadata }) on table md: one returned row for
\* each selected row of the table, told apart here by the row it comes from
SearchMetadata(md, privacyMask, filter) ==
  LET selected == IF privacyMask THEN FilterKey(md, filter) ELSE FilterKeyValue(md, filter)
  IN [id \in {m.id : m \in selected} |->
        [c \in SelectColumns(privacyMask) |-> (CHOOSE m \in selected : m.id = id)[c]]]

CallSearchMetadata(masks, filters) ==
  \E privacyMask \in masks, filter \in filters :
    /\ fetched' = [op |-> "searchMetadata", privacyMask |-> privacyMask, metadata |-> filter,
                   table |-> metadata, threw |-> "none",
                   rows |-> SearchMetadata(metadata, privacyMask, filter)]
    /\ UNCHANGED <<metadata, versionMetadata, nextId, onDelete, etrx, last, pc, loc, version, clock, otherVars>>

\* rows are created and pruned, and the table is searched with and without the mask
NextSearch ==
  \/ CallCreateMetadata(Inputs, {FALSE}, {"none"})
  \/ CallPruneOrphanedMetadata({FALSE}, {"none"})
  \/ CallSearchMetadata(BOOLEAN, MetadataFilters)

SpecSearch == Init /\ [][NextSearch]_vars

\* grants are made, several in one request, and revoked
NextGrant ==
  \/ CallAddPermissions(MaxBody)
  \/ RemovePermission

SpecGrant == Init /\ [][NextGrant]_vars

\* ------------------------------------- the object-permission router
\* the status code of a request that fails validation
ValidationStatusCode == 422

\* the strings a query sends where an id is expected; "bad" is no uuid
IdStrings == {"u1", "bad"}

\* a query parameter that takes ids: absent, one string, or a list of strings
IdParams(strings, maxIds) ==
  {[kind |-> "absent", ids |-> <<>>]}
    \cup {[kind |-> "single", ids |-> <<x>>] : x \in strings}
    \cup {[kind |-> "list", ids |-> l] : l \in UNION {[1..n -> strings] : n \in 1..maxIds}}

\* the query strings of GET /
Queries ==
  [bucketId : IdParams({"B1", "bad"}, 0), objectPerms : {"absent", "true", "false", "maybe"},
   permCode : {"absent", "READ", "NOPE"}, userId : IdParams(IdStrings, MaxIds)]

IsUuidv4(x) == x \in Users \cup Buckets

\* type.uuidv4: one string that is a uuid; an absent value passes unless required
TypeUuidv4(v) == v.kind = "absent" \/ (v.kind = "single" /\ IsUuidv4(v.ids[1]))

\* scheme.guid: one uuid or a list of uuids
SchemeGuid(v) == v.kind = "absent" \/ \A k \in 1..Len(v.ids) : IsUuidv4(v.ids[k])

\* type.truthy: a boolean or one of its spellings; the value it converts to
TypeTruthy(v) == v \in {"absent", "true", "false"}

\* scheme.permCode: one of the permission codes
SchemePermCode(v) == v \in {"absent"} \cup PermCodes

\* the userId rule without its condition on objectPerms
SearchPermissionsUserId_Unconditional(query) == SchemeGuid(query.userId)

\* userId: Joi.alternatives().conditional('objectPerms', { is: true,
\*   then: type.uuidv4.required(), otherwise: scheme.guid })
SearchPermissionsUserId(query) ==
  IF query.objectPerms = "true"
  THEN query.userId.kind # "absent" /\ TypeUuidv4(query.userId)
  ELSE SchemeGuid(query.userId)

\* schema.searchPermissions.query
SearchPermissionsSchema(query) ==
  /\ SchemeGuid(query.bucketId)
  /\ TypeTruthy(query.objectPerms)
  /\ SchemePermCode(query.permCode)
  /\ SearchPermissionsUserId(query)

\* the handlers of GET / in the order the router runs them
SearchPermissionsRoute ==
  <<"checkAppMode", "requireDb", "validator.searchPermissions", "controller.searchPermissions">>

\* does handler h pass the request on: the validator by the schema, the two
\* router-wide middleware as the deployment decides (passes)
PassesOn(h, query, passes) ==
  IF h = "validator.searchPermissions" THEN SearchPermissionsSchema(query) ELSE h \in passes

RECURSIVE RunRoute(_, _, _, _)
\* express runs the handlers in order until one ends the request
RunRoute(handlers, query, passes, ran) ==
  IF handlers = <<>> THEN [ran |-> ran, endedBy |-> "none", status |-> 0]
  ELSE LET h == Head(handlers)
       IN IF Len(handlers) > 1 /\ PassesOn(h, query, passes)
          THEN RunRoute(Tail(handlers), query, passes, Append(ran, h))
          ELSE [ran |-> Append(ran, h), endedBy |-> h,
                status |-> IF h = "validator.searchPermissions" THEN ValidationStatusCode ELSE 0]

\* router.get('/', objectPermissionValidator.searchPermissions, controller)
GetSearchPermissions ==
  \E query \in Queries, passes \in SUBSET {"checkAppMode", "requireDb"} :
    LET r == RunRoute(SearchPermissionsRoute, query, passes, <<>>)
    IN /\ http' = [route |-> "GET /", query |-> query, ran |-> r.ran,
                   endedBy |-> r.endedBy, status |-> r.status]
       /\ UNCHANGED <<metadataVars, perm, userVars, storageVars, app>>

NextHttp == GetSearchPermissions

\* ------------------------- the routes on /:objectId of the two routers
\* a handler of a route: a middleware or the controller, with its argument
Handler(kind, arg) == [kind |-> kind, arg |-> arg]

\* router.use(...): the middleware every request to the router runs first
RouterWide(router) ==
  IF router = "object" THEN <<Handler("checkAppMode", "")>>
  ELSE <<Handler("checkAppMode", ""), Handler("requireDb", "")>>

\* router.<method>(path, <router>Validator.<name>, ...toggles, currentObject,
\*   hasPermission(Permissions.<code>), controller.<name>)
ObjectRoute(router, method, path, name, toggles, code) ==
  [router |-> router, method |-> method, path |-> path, name |-> name,
   handlers |-> RouterWide(router) \o <<Handler("validator", name)>>
                  \o [i \in 1..Len(toggles) |-> Handler(toggles[i], "")]
                  \o <<Handler("currentObject", ""), Handler("hasPermission", code),
                       Handler("controller", name)>>]

\* the routes on /:objectId of the object router and of the object-permission router
ObjectRoutes ==
  { ObjectRoute("object", "HEAD", "/:objectId", "headObject", <<>>, "READ"),
    ObjectRoute("object", "GET", "/:objectId", "readObject", <<>>, "READ"),
    ObjectRoute("object", "POST", "/:objectId", "updateObject", <<"requireSomeAuth">>, "UPDATE"),
    ObjectRoute("object", "DELETE", "/:objectId", "deleteObject", <<"requireSomeAuth">>, "DELETE"),
    ObjectRoute("object", "GET", "/:objectId/version", "listObjectVersion",
                <<"requireSomeAuth", "requireDb">>, "READ"),
    ObjectRoute("object", "PATCH", "/:objectId/public", "togglePublic",
                <<"requireSomeAuth", "requireDb">>, "MANAGE"),
    ObjectRoute("object", "PATCH", "/:objectId/metadata", "addMetadata", <<"requireSomeAuth">>, "UPDATE"),
    ObjectRoute("object", "PUT", "/:objectId/metadata", "replaceMetadata", <<"requireSomeAuth">>, "UPDATE"),
    ObjectRoute("object", "DELETE", "/:objectId/metadata", "deleteMetadata", <<"requireSomeAuth">>, "UPDATE"),
    ObjectRoute("object", "PATCH", "/:objectId/tagging", "addTags", <<"requireSomeAuth">>, "UPDATE"),
    ObjectRoute("object", "PUT", "/:objectId/tagging", "replaceTags", <<"requireSomeAuth">>, "UPDATE"),
    ObjectRoute("object", "DELETE", "/:objectId/tagging", "deleteTags", <<"requireSomeAuth">>, "UPDATE"),
    ObjectRoute("permission", "GET", "/:objectId", "listPermissions", <<"requireSomeAuth">>, "MANAGE"),
    ObjectRoute("permission", "PUT", "/:objectId", "addPermissions", <<"requireSomeAuth">>, "MANAGE"),
    ObjectRoute("permission", "DELETE", "/:objectId", "removePermissions", <<"requireSomeAuth">>, "MANAGE") }

\* the middleware of the routes; each passes a request on or ends it
Middleware == {"checkAppMode", "requireDb", "validator", "requireSomeAuth", "currentObject", "hasPermission"}

\* no middleware ends a request
EndsRequest_Never(h, passes) == FALSE

\* handler h ends the request: the controller always, a middleware that does not call next()
EndsRequest(h, passes) == h.kind = "controller" \/ h.kind \notin passes

RECURSIVE RunHandlers(_, _, _)
\* express runs the handlers of the route in order until one ends the request
RunHandlers(handlers, passes, ran) ==
  IF handlers = <<>> THEN ran
  ELSE IF EndsRequest(Head(handlers), passes) THEN Append(ran, Head(handlers))
  ELSE RunHandlers(Tail(handlers), passes, Append(ran, Head(handlers)))

\* a request to one of the routes; passes are the middleware that let this request through
RequestObjectRoute ==
  \E r \in ObjectRoutes, passes \in SUBSET Middleware :
    /\ http' = [route |-> r.path, router |-> r.router, method |-> r.method, name |-> r.name,
                passes |-> passes, ran |-> RunHandlers(r.handlers, passes, <<>>)]
    /\ UNCHANGED <<metadataVars, perm, userVars, storageVars, app>>

NextRoutes == RequestObjectRoute

SpecRoutes == Init /\ [][NextRoutes]_vars

SpecHttp == Init /\ [][NextHttp]_vars

\* ------------------------- app.js: readiness gate, connection checks, shutdown
\* the shutdown timers that may be pending at once
MaxTimers == 2
\* the connection checks of the probe that may be pending at once
MaxChecks == 2

Signals == {"SIGTERM", "SIGINT", "SIGUSR1", "SIGUSR2"}

\* what a check of the data connection comes to
CheckResults == {"true", "false", "rejects"}

\* state.connections: the set of <<name, ok>> entries; at most one entry per name
SetConnection(connections, name, ok) ==
  {c \in connections : c[1] # name} \cup {<<name, ok>>}

\* Object.values(state.connections).every(x => x)
AllConnected(connections) == \A c \in connections : c[2]

\* the process runs: app.js is evaluated and the process has not exited
Running == app.loaded /\ ~app.exited

\* the hard-exit timers after cleanup() armed none
ArmHardExit_Never(timers) == timers

\* setTimeout(() => process.exit(), 10000)
ArmHardExit(timers) == timers + 1

\* shutdown() arms a timer whatever state.shutdown is
ArmShutdown_Always(a) == [a EXCEPT !.shutdownTimers = @ + 1]

\* shutdown(): if (!state.shutdown) setTimeout(cleanup, 3000)
ArmShutdown(a) == IF a.shutdown THEN a ELSE [a EXCEPT !.shutdownTimers = @ + 1]

\* shutdown() can be modelled: the timer it may arm is within the bound
CanShutdown == app.shutdown \/ app.shutdownTimers < MaxTimers

\* cleanup()
Cleanup(a) ==
  [a EXCEPT !.shutdown = TRUE, !.probe = FALSE,
            !.closeCalls = @ + 1, !.closePending = @ + 1,
            !.hardExitTimers = ArmHardExit(@), !.cleanups = @ + 1]

\* the module body: the state literal, initializeConnections() called, connections.data
\* entered when a database is configured, cleanup() at once in an oidc mode without one
Load ==
  /\ ~app.loaded
  /\ \E dbEnabled \in BOOLEAN, oidc \in BOOLEAN :
       LET a == [NotLoaded EXCEPT !.loaded = TRUE, !.dbEnabled = dbEnabled, !.oidc = oidc,
                                  !.initPending = TRUE, !.event = "load",
                                  !.connections = IF dbEnabled THEN {<<"data", FALSE>>} ELSE {}]
       IN app' = IF oidc /\ ~dbEnabled THEN Cleanup([a EXCEPT !.exitCode = 1]) ELSE a
  /\ UNCHANGED <<metadataVars, perm, http, userVars, storageVars>>

\* the gate lets every request through
Gate_Open(ready, shutdown) == [status |-> 200, details |-> "none", routed |-> TRUE]

\* the middleware in front of the API router
Gate(ready, shutdown) ==
  IF shutdown THEN [status |-> 503, details |-> "Server is shutting down", routed |-> FALSE]
  ELSE IF ~ready THEN [status |-> 503, details |-> "Server is not ready", routed |-> FALSE]
  ELSE [status |-> 200, details |-> "none", routed |-> TRUE]

\* a request arrives
Request ==
  /\ Running
  /\ app' = [app EXCEPT !.event = "request", !.response = Gate(app.ready, app.shutdown)]
  /\ UNCHANGED <<metadataVars, perm, http, userVars, storageVars>>

\* a kill signal arrives: shutdown()
Signal ==
  /\ Running
  /\ CanShutdown
  /\ \E sig \in Signals :
       app' = [ArmShutdown(app) EXCEPT !.event = sig, !.signalled = TRUE]
  /\ UNCHANGED <<metadataVars, perm, http, userVars, storageVars>>

\* a shutdown timer fires: cleanup()
ShutdownTimerFires ==
  /\ Running
  /\ app.shutdownTimers > 0
  /\ app' = [Cleanup(app) EXCEPT !.shutdownTimers = @ - 1, !.event = "cleanup"]
  /\ UNCHANGED <<metadataVars, perm, http, userVars, storageVars>>

\* the data connection is closed and calls back: process.exit()
CloseCallback ==
  /\ Running
  /\ app.closePending > 0
  /\ app' = [app EXCEPT !.exited = TRUE, !.event = "closeCallback"]
  /\ UNCHANGED <<metadataVars, perm, http, userVars, storageVars>>

\* a hard-exit timer fires: process.exit()
HardExitTimerFires ==
  /\ Running
  /\ app.hardExitTimers > 0
  /\ app' = [app EXCEPT !.exited = TRUE, !.event = "hardExitTimer"]
  /\ UNCHANGED <<metadataVars, perm, http, userVars, storageVars>>

\* initializeConnections: checkAll() settles; then, catch and finally run
InitializeConnections(a, result) ==
  LET then == IF result = "rejects" THEN a
              ELSE [a EXCEPT !.connections = SetConnection(@, "data", result = "true")]
      catch == IF result = "rejects" /\ ~then.ready
               THEN ArmShutdown([then EXCEPT !.exitCode = 1])
               ELSE then
      ready == AllConnected(catch.connections)
  IN [catch EXCEPT !.ready = ready, !.probe = IF ready THEN TRUE ELSE @,
                   !.initPending = FALSE, !.event = "initialized", !.result = result]

\* the check initializeConnections started settles
InitSettles ==
  /\ Running
  /\ app.initPending
  /\ CanShutdown
  /\ \E result \in CheckResults : app' = InitializeConnections(app, result)
  /\ UNCHANGED <<metadataVars, perm, http, userVars, storageVars>>

\* checkConnections: the probe fires and starts a check unless state.shutdown
CheckConnections(a) ==
  IF ~a.shutdown THEN [a EXCEPT !.checks = @ + 1, !.event = "probe"]
  ELSE [a EXCEPT !.event = "probe"]

\* the interval of the probe fires
ProbeFires ==
  /\ Running
  /\ app.probe
  /\ app.shutdown \/ app.checks < MaxChecks
  /\ app' = CheckConnections(app)
  /\ UNCHANGED <<metadataVars, perm, http, userVars, storageVars>>

\* checkConnections: the then of a check that settled; a rejection has no handler
ConnectionsChecked(a, result) ==
  LET done == [a EXCEPT !.checks = @ - 1, !.event = "probeResult", !.result = result]
      set == [done EXCEPT !.connections = SetConnection(@, "data", result = "true")]
      ready == AllConnected(set.connections)
  IN IF result = "rejects" THEN done
     ELSE IF ready THEN [set EXCEPT !.ready = TRUE]
     ELSE ArmShutdown([set EXCEPT !.ready = FALSE, !.exitCode = 1])

\* a check the probe started settles
CheckSettles ==
  /\ Running
  /\ app.checks > 0
  /\ CanShutdown
  /\ \E result \in CheckResults : app' = ConnectionsChecked(app, result)
  /\ UNCHANGED <<metadataVars, perm, http, userVars, storageVars>>

NextApp ==
  \/ Load
  \/ Request
  \/ Signal
  \/ ShutdownTimerFires
  \/ CloseCallback
  \/ HardExitTimerFires
  \/ InitSettles
  \/ ProbeFires
  \/ CheckSettles

SpecApp == Init /\ [][NextApp]_vars

\* timers that are due fire; the close callback may never come
SpecAppFair ==
  SpecApp /\ WF_vars(Load) /\ WF_vars(ShutdownTimerFires) /\ WF_vars(HardExitTimerFires)

\* ------------------------------------------------------ the user service
\* the claims of a token
Tokens == [sub : IdentityIds, identity_provider : IdpCodes \cup {"undefined"}, email : Emails]

\* the user records callers pass: the mapped fields, without a userId
UserData == [identityId : IdentityIds, idp : IdpCodes \cup {"undefined"}, email : Emails]

\* _tokenToUser(token): the claims mapped to the fields of a user record
TokenToUser(token) ==
  [identityId |-> token.sub, idp |-> token.identity_provider, email |-> token.email]

\* a running call of the user service: the two tables and the calls made so far
UserCtx0 == [user |-> userTable, identityProvider |-> identityProvider, calls |-> <<>>, threw |-> "none"]

Called(ctx, fn, arg) == [ctx EXCEPT !.calls = Append(@, [fn |-> fn, arg |-> arg])]

\* readIdp(code): IdentityProvider.query().findById(code)
ReadIdp(ctx, code) == Called(ctx, "readIdp", code)

\* createIdp(idp, etrx): the row is inserted on the caller's transaction
CreateIdp(ctx, code) ==
  [Called(ctx, "createIdp", code) EXCEPT !.identityProvider = @ \cup {code}]

\* the idp step without its lookup: the row is created on every call
EnsureIdp_Always(ctx, code) == CreateIdp(ReadIdp(ctx, code), code)

\* if (data.idp) { if (!await readIdp(data.idp)) await createIdp(data.idp, trx) }
EnsureIdp(ctx, code) ==
  IF code = "undefined" THEN ctx
  ELSE IF code \in ctx.identityProvider THEN ReadIdp(ctx, code)
  ELSE CreateIdp(ReadIdp(ctx, code), code)

\* createUser(data): the idp row first, then the user row with a new uuid, in one transaction
CreateUser(ctx, data, newId) ==
  LET t == Called(ctx, "startTransaction", "user")
      e == EnsureIdp(t, data.idp)
      u == [Called(e, "insertUser", newId) EXCEPT
              !.user = @ \cup {[userId |-> newId, identityId |-> data.identityId,
                                idp |-> data.idp, email |-> data.email]}]
  IN Called(u, "commit", "user")

\* the mapped fields of the stored row that differ from data
Differs(oldUser, data) ==
  \/ oldUser.identityId # data.identityId
  \/ oldUser.idp # data.idp
  \/ oldUser.email # data.email

\* the comparison left out: every update patches
NeedsPatch_Always(oldUser, data) == TRUE

\* updateUser patches only if a mapped field differs
NeedsPatch(oldUser, data) == Differs(oldUser, data)

\* updateUser(userId, data): readUser, and a patch in a transaction only if something differs
UpdateUser(ctx, userId, data) ==
  LET r == Called(ctx, "readUser", userId)
      found == {row \in ctx.user : row.userId = userId}
      oldUser == CHOOSE row \in found : TRUE
      t == Called(r, "startTransaction", "user")
      e == EnsureIdp(t, data.idp)
      u == [Called(e, "patchUser", userId) EXCEPT
              !.user = (@ \ {oldUser}) \cup {[userId |-> userId, identityId |-> data.identityId,
                                              idp |-> data.idp, email |-> data.email]}]
  IN IF found = {} THEN [r EXCEPT !.threw = "NotFoundError"]
     ELSE IF NeedsPatch(oldUser, data) THEN Called(u, "commit", "user")
     ELSE r

\* login without its lookup: a user is created on every login
LoginBranch_AlwaysCreate(ctx, data, found, oldUser, newId) ==
  CreateUser(Called(ctx, "createUser", data.identityId), data, newId)

\* login: if (!oldUser) createUser(newUser) else updateUser(oldUser.userId, newUser)
LoginBranch(ctx, data, found, oldUser, newId) ==
  IF ~found THEN CreateUser(Called(ctx, "createUser", data.identityId), data, newId)
  ELSE UpdateUser(Called(ctx, "updateUser", oldUser.userId), oldUser.userId, data)

\* login(token): the user is looked up by identityId; oldUser is the row
\* User.query().where('identityId', ...).first() returned when there is one
Login(ctx, token, oldUser, newId) ==
  LET data == TokenToUser(token)
      f == Called(ctx, "findUser", data.identityId)
  IN LoginBranch(f, data, \E row \in ctx.user : row.identityId = data.identityId, oldUser, newId)

\* the call has returned: the tables as it left them, and what it did
UserReturned(r, op, data) ==
  /\ userTable' = r.user
  /\ identityProvider' = r.identityProvider
  /\ userLast' = [op |-> op, identityId |-> data.identityId, idp |-> data.idp,
                  email |-> data.email, calls |-> r.calls]
  /\ UNCHANGED <<metadataVars, perm, http, storageVars, app, logins>>

\* the uuids no user row holds yet
FreeUserIds == UserIds \ {row.userId : row \in userTable}

CallCreateUser ==
  \E data \in UserData, newId \in FreeUserIds :
    UserReturned(CreateUser(UserCtx0, data, newId), "createUser", data)

CallUpdateUser ==
  \E row \in userTable, data \in UserData :
    UserReturned(UpdateUser(UserCtx0, row.userId, data), "updateUser", data)

CallLogin ==
  \E token \in Tokens :
    LET rows == {row \in userTable : row.identityId = token.sub}
    IN IF rows = {}
       THEN \E newId \in FreeUserIds :
              UserReturned(Login(UserCtx0, token, NoUser, newId),
                           "login", TokenToUser(token))
       ELSE \E oldUser \in rows :
              UserReturned(Login(UserCtx0, token, oldUser, "none"), "login", TokenToUser(token))

NextUser ==
  \/ CallCreateUser
  \/ CallUpdateUser
  \/ CallLogin

SpecUser == Init /\ [][NextUser]_vars

\* ------------------------- login calls that run at the same time
\* login of process p: User.query().where('identityId', newUser.identityId).first()
\* returns the row it finds among the committed rows, or none
LoginFinds(p) ==
  /\ logins[p].pc = "idle"
  /\ \E token \in Tokens :
       LET rows == {row \in userTable : row.identityId = token.sub}
       IN \E oldUser \in (IF rows = {} THEN {NoUser} ELSE rows) :
            logins' = [logins EXCEPT ![p] = [pc |-> "found", token |-> token, oldUser |-> oldUser]]
  /\ UNCHANGED <<metadataVars, perm, http, storageVars, app, userTable, identityProvider, userLast>>

\* login of process p goes on with what its lookup returned: createUser or
\* updateUser, each in a transaction of its own, on the rows committed by now
LoginActs(p) ==
  /\ logins[p].pc = "found"
  /\ LET token == logins[p].token
         oldUser == logins[p].oldUser
         data == TokenToUser(token)
         f == Called(UserCtx0, "findUser", data.identityId)
     IN \E newId \in (IF oldUser = NoUser THEN FreeUserIds ELSE {"none"}) :
          LET r == LoginBranch(f, data, oldUser # NoUser, oldUser, newId)
          IN /\ userTable' = r.user
             /\ identityProvider' = r.identityProvider
             /\ userLast' = [op |-> "login", identityId |-> data.identityId, idp |-> data.idp,
                             email |-> data.email, calls |-> r.calls]
             /\ logins' = [logins EXCEPT ![p].pc = "done"]
  /\ UNCHANGED <<metadataVars, perm, http, storageVars, app>>

NextLogin == \E p \in Procs : LoginFinds(p) \/ LoginActs(p)

SpecLogin == Init /\ [][NextLogin]_vars

\* ------------------------------------------------------------ the storage service
\* encodeURIComponent and its inverse on the tag values of the model
EncodeURIComponent(v) == IF v = "a b" THEN "a%20b" ELSE v

DecodeURIComponent(e) == IF e = "a%20b" THEN "a b" ELSE e

\* the tags object as the Tagging string k1=v1&k2=v2, one token per element
RECURSIVE TagsToQuery(_)
TagsToQuery(entries) ==
  IF entries = <<>> THEN <<>>
  ELSE LET head == <<entries[1][1], "=", EncodeURIComponent(entries[1][2])>>
       IN IF Len(entries) = 1 THEN head ELSE head \o <<"&">> \o TagsToQuery(Tail(entries))

\* the tags object as a TagSet: [{ Key, Value }]
TagsToTagSet(entries) == [k \in 1..Len(entries) |-> [Key |-> entries[k][1], Value |-> entries[k][2]]]

\* the store reads a Tagging string back into the tags of the object
RECURSIVE QueryToTagSet(_)
QueryToTagSet(q) ==
  IF Len(q) < 3 THEN <<>>
  ELSE <<[Key |-> q[1], Value |-> DecodeURIComponent(q[3])]>> \o QueryToTagSet(SubSeq(q, 5, Len(q)))

\* the Tagging parameter of putObject and copyObject
TaggingParam(tags) ==
  IF tags.given THEN [given |-> TRUE, value |-> TagsToQuery(tags.entries)] ELSE NotSent

\* a command for the client, with the parameters left out that the caller sets
Command(cmd, key) ==
  [cmd |-> cmd, Key |-> key, CopySource |-> "undefined", VersionId |-> "undefined",
   Metadata |-> "undefined", MetadataDirective |-> "undefined", Tagging |-> NotSent,
   TagSet |-> NotSent, TaggingDirective |-> "undefined"]

\* the store refuses a command on an object that is not there
S3Rejects(s3, c) ==
  \/ c.cmd = "CopyObjectCommand" /\ ~s3[c.CopySource].present
  \/ c.cmd \in {"PutObjectTaggingCommand", "DeleteObjectTaggingCommand"} /\ ~s3[c.Key].present

\* the store after a command it accepted: COPY keeps the source's metadata and
\* tags, REPLACE puts the sent ones in their place
S3Apply(s3, c) ==
  CASE c.cmd = "PutObjectCommand" ->
         [s3 EXCEPT ![c.Key] = [present |-> TRUE, metadata |-> c.Metadata,
                                tags |-> QueryToTagSet(c.Tagging.value)]]
    [] c.cmd = "CopyObjectCommand" ->
         [s3 EXCEPT ![c.Key] =
            [present |-> TRUE,
             metadata |-> IF c.MetadataDirective = "REPLACE" THEN c.Metadata
                          ELSE s3[c.CopySource].metadata,
             tags |-> IF c.TaggingDirective = "REPLACE" THEN QueryToTagSet(c.Tagging.value)
                      ELSE s3[c.CopySource].tags]]
    [] c.cmd = "PutObjectTaggingCommand" -> [s3 EXCEPT ![c.Key].tags = c.TagSet.value]
    [] c.cmd = "DeleteObjectTaggingCommand" -> [s3 EXCEPT ![c.Key].tags = <<>>]
    [] c.cmd = "DeleteObjectCommand" /\ c.VersionId = "undefined" -> [s3 EXCEPT ![c.Key] = NoObject]
    [] OTHER -> s3

\* a call of the storage service: the bucket, the commands sent, the outcome
StorageCtx0 == [s3 |-> s3Store, sent |-> <<>>, outcome |-> Ok]

\* StorageError{op, bucket, key, cause}
StorageError(op, c) == [kind |-> "StorageError", op |-> op, key |-> c.Key, cause |-> c.cmd]

\* a client that sends a failed command a second time
Send_Retrying(ctx, op, c, fails) ==
  IF ctx.outcome.kind # "ok" THEN ctx
  ELSE IF fails \/ S3Rejects(ctx.s3, c)
       THEN [ctx EXCEPT !.sent = @ \o <<[c |-> c, ok |-> FALSE], [c |-> c, ok |-> FALSE]>>,
                        !.outcome = StorageError(op, c)]
       ELSE [ctx EXCEPT !.sent = Append(@, [c |-> c, ok |-> TRUE]), !.s3 = S3Apply(@, c)]

\* client.send(command): sent once; a failure is the call's StorageError
Send(ctx, op, c, fails) ==
  IF ctx.outcome.kind # "ok" THEN ctx
  ELSE IF fails \/ S3Rejects(ctx.s3, c)
       THEN [ctx EXCEPT !.sent = Append(@, [c |-> c, ok |-> FALSE]),
                        !.outcome = StorageError(op, c)]
       ELSE [ctx EXCEPT !.sent = Append(@, [c |-> c, ok |-> TRUE]), !.s3 = S3Apply(@, c)]

\* a directive that defaults to REPLACE
DefaultDirective_Replace(d) == IF d = "undefined" THEN "REPLACE" ELSE d

\* metadataDirective = MetadataDirective.COPY, taggingDirective = TaggingDirective.COPY
DefaultDirective(d) == IF d = "undefined" THEN "COPY" ELSE d

\* copyObject({ copySource, filePath, metadata, metadataDirective, tags, taggingDirective, s3VersionId })
CopyObjectParams(a) ==
  [Command("CopyObjectCommand", a.filePath) EXCEPT
     !.CopySource = a.copySource,
     !.Metadata = a.metadata,
     !.MetadataDirective = DefaultDirective(a.metadataDirective),
     !.Tagging = TaggingParam(a.tags),
     !.TaggingDirective = DefaultDirective(a.taggingDirective),
     !.VersionId = a.s3VersionId]

CopyObject(ctx, a, fails) == Send(ctx, "copyObject", CopyObjectParams(a), fails)

\* the commands of the operations that take a filePath and an optional version id
SimpleCommands ==
  [deleteObject |-> "DeleteObjectCommand", deleteObjectTagging |-> "DeleteObjectTaggingCommand",
   getObjectTagging |-> "GetObjectTaggingCommand", headObject |-> "HeadObjectCommand",
   listObjects |-> "ListObjectsCommand", listObjectVersion |-> "ListObjectVersionsCommand",
   readObject |-> "GetObjectCommand"]

\* deleteObject, deleteObjectTagging, getObjectTagging, headObject, listObjects,
\* listObjectVersion, readObject: { filePath, s3VersionId }
SimpleObject(ctx, op, a, fails) ==
  Send(ctx, op, [Command(SimpleCommands[op], a.filePath) EXCEPT !.VersionId = a.s3VersionId], fails)

\* putObjectTagging({ filePath, tags, s3VersionId }): tags is a TagSet
PutObjectTagging(ctx, a, fails) ==
  Send(ctx, "putObjectTagging",
       [Command("PutObjectTaggingCommand", a.filePath) EXCEPT
          !.TagSet = a.tagSet, !.VersionId = a.s3VersionId], fails)

\* putObject({ stream, id, mimeType, metadata, tags }): the tags go in the same command
PutObject(ctx, a, fails) ==
  Send(ctx, "putObject",
       [Command("PutObjectCommand", a.filePath) EXCEPT
          !.Metadata = a.metadata, !.Tagging = TaggingParam(a.tags)], fails)

\* an upload that tags before it writes
UploadCommands_TagFirst(a) ==
  LET put == [Command("PutObjectCommand", a.filePath) EXCEPT !.Metadata = a.metadata]
      tag == [Command("PutObjectTaggingCommand", a.filePath) EXCEPT
                !.Metadata = a.metadata,
                !.TagSet = [given |-> TRUE, value |-> TagsToTagSet(a.tags.entries)]]
  IN IF a.tags.given THEN <<tag, put>> ELSE <<put>>

\* upload({ stream, id, mimeType, metadata, tags }): the object write, then,
\* with tags, the tagging call with the same params and the TagSet
UploadCommands(a) ==
  LET put == [Command("PutObjectCommand", a.filePath) EXCEPT !.Metadata = a.metadata]
      tag == [Command("PutObjectTaggingCommand", a.filePath) EXCEPT
                !.Metadata = a.metadata,
                !.TagSet = [given |-> TRUE, value |-> TagsToTagSet(a.tags.entries)]]
  IN IF a.tags.given THEN <<put, tag>> ELSE <<put>>

\* an upload that swallows the failure of its tagging call
UploadOutcome_Swallowed(o) == Ok

\* the outcome of an upload whose object write succeeded, from the outcome o of
\* its tagging call: a failure is the partial success of the upload
UploadOutcome(o) == IF o.kind = "ok" THEN o ELSE [o EXCEPT !.kind = "PartialSuccess"]

Upload(ctx, a, failPut, failTag) ==
  LET cs == UploadCommands(a)
      first == Send(ctx, "upload", cs[1], failPut)
  IN IF Len(cs) = 1 \/ first.outcome.kind # "ok" THEN first
     ELSE [Send(first, "upload", cs[2], failTag) EXCEPT !.outcome = UploadOutcome(@)]

\* the call has returned: the bucket as it left it, and what it sent
StorageReturned(r, op, a) ==
  /\ s3Store' = r.s3
  /\ storageLast' = [op |-> op, args |-> a, sent |-> r.sent, outcome |-> r.outcome]
  /\ UNCHANGED <<metadataVars, perm, http, userVars, app>>

\* filePath and s3VersionId given, nothing else
SimpleArgs == {[NoArgs EXCEPT !.filePath = p, !.s3VersionId = v] : p \in FilePaths, v \in S3VersionIds}

CallCopyObject ==
  \E src \in FilePaths, dest \in FilePaths, m \in MetadataChoices, t \in TaggingChoices,
     fails \in BOOLEAN :
    LET args == [NoArgs EXCEPT !.filePath = dest, !.copySource = src, !.metadata = m.map,
                               !.metadataDirective = m.directive, !.tags = t.tags,
                               !.taggingDirective = t.directive]
    IN StorageReturned(CopyObject(StorageCtx0, args, fails), "copyObject", args)

CallDeleteObject ==
  \E a \in SimpleArgs, fails \in BOOLEAN :
    StorageReturned(SimpleObject(StorageCtx0, "deleteObject", a, fails), "deleteObject", a)

CallDeleteObjectTagging ==
  \E a \in SimpleArgs, fails \in BOOLEAN :
    StorageReturned(SimpleObject(StorageCtx0, "deleteObjectTagging", a, fails), "deleteObjectTagging", a)

CallGetObjectTagging ==
  \E a \in SimpleArgs, fails \in BOOLEAN :
    StorageReturned(SimpleObject(StorageCtx0, "getObjectTagging", a, fails), "getObjectTagging", a)

CallHeadObject ==
  \E a \in SimpleArgs, fails \in BOOLEAN :
    StorageReturned(SimpleObject(StorageCtx0, "headObject", a, fails), "headObject", a)

CallListObjects ==
  \E a \in SimpleArgs, fails \in BOOLEAN :
    StorageReturned(SimpleObject(StorageCtx0, "listObjects", a, fails), "listObjects", a)

CallListObjectVersion ==
  \E a \in SimpleArgs, fails \in BOOLEAN :
    StorageReturned(SimpleObject(StorageCtx0, "listObjectVersion", a, fails), "listObjectVersion", a)

CallReadObject ==
  \E a \in SimpleArgs, fails \in BOOLEAN :
    StorageReturned(SimpleObject(StorageCtx0, "readObject", a, fails), "readObject", a)

CallPutObjectTagging ==
  \E a \in SimpleArgs, fails \in BOOLEAN :
    LET args == [a EXCEPT !.tagSet = [given |-> TRUE, value |-> TagsToTagSet(TagEntries)]]
    IN StorageReturned(PutObjectTagging(StorageCtx0, args, fails), "putObjectTagging", args)

CallPutObject ==
  \E p \in FilePaths, m \in MetadataMaps, t \in TagArgs, fails \in BOOLEAN :
    LET args == [NoArgs EXCEPT !.filePath = p, !.metadata = m, !.tags = t]
    IN StorageReturned(PutObject(StorageCtx0, args, fails), "putObject", args)

CallUpload ==
  \E p \in FilePaths, m \in MetadataMaps, t \in TagArgs, failPut \in BOOLEAN, failTag \in BOOLEAN :
    LET args == [NoArgs EXCEPT !.filePath = p, !.metadata = m, !.tags = t]
    IN StorageReturned(Upload(StorageCtx0, args, failPut, failTag), "upload", args)

NextStorage ==
  \/ CallCopyObject
  \/ CallDeleteObject
  \/ CallDeleteObjectTagging
  \/ CallGetObjectTagging
  \/ CallHeadObject
  \/ CallListObjects
  \/ CallListObjectVersion
  \/ CallReadObject
  \/ CallPutObjectTagging
  \/ CallPutObject
  \/ CallUpload

SpecStorage == Init /\ [][NextStorage]_vars

\* ------------------------------------------------------------ properties
\* the Metadata rows of tables t that no VersionMetadata row refers to
Unreferenced(t) == {m \in t.md : ~ \E j \in t.vm : j.metadataId = m.id}

Joined(t, v, id) == \E j \in t.vm : j.versionId = v /\ j.metadataId = id

AssociateReturned == last.op = "associateMetadata" /\ last.threw = "none"

\* C1: after a successful associateMetadata(V, S) the pairs joined to V are
\* exactly the pairs of S
C1_JoinedSetEqualsIncoming ==
  AssociateReturned => JoinedPairs(Current, last.versionId) = SeqToSet(last.md)

\* C2: after a successful associateMetadata(V, []) version V has no join left
\* and no Metadata row is left without a reference
C2_EmptySetDissociatesAll ==
  (AssociateReturned /\ last.md = <<>>) =>
     /\ JoinedPairs(Current, last.versionId) = {}
     /\ \A j \in Current.vm : j.versionId # last.versionId
     /\ Unreferenced(Current) = {}

\* C3: a Metadata row joined to V1 and to another version V2, which an
\* associateMetadata call on V1 dissociates from V1, still exists after the
\* call and is still joined to V2
C3_PruningKeepsReferencedRows ==
  [][last'.op = "associateMetadata" =>
       \A m \in Current.md : \A v2 \in Versions \ {last'.versionId} :
          (/\ Joined(Current, last'.versionId, m.id)
           /\ Joined(Current, v2, m.id)
           /\ ~Joined(Current', last'.versionId, m.id))
          => (m \in Current'.md /\ Joined(Current', v2, m.id))]_vars

\* a call on V1 has dissociated a row that V2 shares, and the row is still
\* there, joined to V2
C3_Witness ==
  /\ AssociateReturned
  /\ \E id \in last.dissociateMetadata : \E v2 \in Versions \ {last.versionId} :
        /\ \E m \in Current.md : m.id = id
        /\ Joined(Current, v2, id)
        /\ ~Joined(Current, last.versionId, id)

\* C4 as claimed: no committed Metadata row is without a reference, whatever
\* metadata-service calls have completed
C4_NoOrphanPersists == Unreferenced(Committed) = {}

\* C4 amended: associateMetadata and pruneOrphanedMetadata leave no Metadata row
\* without a reference when there was none before the call, and a successful
\* pruneOrphanedMetadata leaves none at all; only createMetadata leaves such rows
C4_AssociateAndPruneLeaveNoOrphan ==
  [][/\ (last'.op \in {"associateMetadata", "pruneOrphanedMetadata"} /\ Unreferenced(Committed) = {})
          => Unreferenced(Committed') = {}
     /\ (last'.op = "pruneOrphanedMetadata" /\ last'.threw = "none")
          => Unreferenced(Committed') = {}]_vars

\* a call has dissociated a row, pruned it, and no unreferenced row remains
C4_Witness ==
  /\ AssociateReturned
  /\ last.dissociateMetadata # {}
  /\ last.deleted > 0
  /\ \A id \in last.dissociateMetadata : \A m \in Committed.md : m.id # id
  /\ Committed.md # {}
  /\ Unreferenced(Committed) = {}

\* C6: no two rows of table metadata hold the same (key, value) pair
C6_MetadataUniqueOnKeyValue ==
  \A m1, m2 \in Current.md : (m1.key = m2.key /\ m1.value = m2.value) => m1 = m2

\* a call whose incoming array repeats one pair has run, and the pair has a row
C6_Witness ==
  /\ last.op \in {"createMetadata", "associateMetadata"}
  /\ Len(last.md) = 2
  /\ last.md[1] = last.md[2]
  /\ GetObjectsByKeyValue(Current.md, last.md[1].key, last.md[1].value) # {}

\* C9: associateMetadata(V, S) on a version whose joined pairs already are the
\* non-empty S returns normally and issues no insert and no delete: the tables
\* and the id sequence stay as they were
C9_ReassociateIsNoOp ==
  [][(/\ last'.op = "associateMetadata"
      /\ last'.md # <<>>
      /\ JoinedPairs(Current, last'.versionId) = SeqToSet(last'.md))
     => /\ last'.threw = "none"
        /\ last'.log = <<"startTransaction", "selectMetadata", "selectJoins", "commit">>
        /\ Committed' = Committed
        /\ nextId' = nextId]_vars

\* a call with two different pairs found both joined already and changed nothing
C9_Witness ==
  /\ AssociateReturned
  /\ Len(last.md) = 2
  /\ last.md[1] # last.md[2]
  /\ last.log = <<"startTransaction", "selectMetadata", "selectJoins", "commit">>
  /\ JoinedPairs(Committed, last.versionId) = SeqToSet(last.md)


ServiceOps == {"associateMetadata", "pruneOrphanedMetadata", "createMetadata"}

\* C7: a call that is given the caller's transaction opens none of its own, issues
\* no commit, leaves the committed tables as they were and, when it returns
\* normally, leaves the caller's transaction open
C7_CommitsOnlyOwnTransaction ==
  [][(last'.op \in ServiceOps /\ last'.etrxGiven)
     => /\ \A i \in 1..Len(last'.log) : last'.log[i] \notin {"startTransaction", "commit"}
        /\ Committed' = Committed
        /\ last'.threw = "none" => etrx'.st = "open"]_vars

\* associateMetadata has run on the caller's transaction, dissociating, pruning
\* and joining; its changes are pending on that transaction, still open
C7_Witness ==
  /\ AssociateReturned
  /\ last.etrxGiven
  /\ \E i \in 1..Len(last.log) : last.log[i] = "pruneDelete"
  /\ \E i \in 1..Len(last.log) : last.log[i] = "insertJoins"
  /\ etrx.st = "open"
  /\ Current # Committed

\* C8: an associateMetadata call that throws on a transaction of its own has
\* rolled it back and leaves the committed tables as they were; one that throws
\* on the caller's transaction issues no rollback and leaves that to the caller
C8_RollbackOnlyOwnTransaction ==
  [][(last'.op = "associateMetadata" /\ last'.threw # "none")
     => /\ Committed' = Committed
        /\ IF last'.etrxGiven
           THEN /\ \A i \in 1..Len(last'.log) : last'.log[i] # "rollback"
                /\ etrx'.st # "rolledback"
           ELSE /\ etrx' = etrx
                /\ last'.log # <<>> => last'.log[Len(last'.log)] = "rollback"]_vars

\* a call on its own transaction has deleted joins and pruned, then failed and rolled back
C8_Witness ==
  /\ last.op = "associateMetadata"
  /\ last.threw # "none"
  /\ ~last.etrxGiven
  /\ \E i \in 1..Len(last.log) : last.log[i] = "pruneDelete"
  /\ last.log[Len(last.log)] = "rollback"


\* the call has resolved its rows and has not yet inserted its joins
Resolved == {"selectJoins", "deleteJoins", "pruneSelect", "pruneDelete", "insertJoins"}

\* the rows createMetadata found in the table for call p, which p is about to join to its version
AboutToJoin(p) ==
  {m \in SeqToSet(loc[p].ctx.dbMetadata) \cap loc[p].ctx.allMetadata :
     ~ \E j \in ViewVm(Committed, loc[p].ctx.h) : j.versionId = loc[p].versionId /\ j.metadataId = m.id}

C10_FetchResolvesCurrentVersion ==
  (fetched.op = "fetchMetadataForObject" /\ fetched.threw = "none") =>
     /\ {row.objectId : row \in fetched.rows} = fetched.objId \cap {v.objectId : v \in version}
     /\ \A row \in fetched.rows :
          /\ \A other \in fetched.rows : other.objectId = row.objectId => other = row
          /\ \E v \in version :
               /\ v.objectId = row.objectId
               /\ v.deleteMarker = FALSE
               /\ \A w \in version :
                    (w.objectId = row.objectId /\ w.deleteMarker = FALSE) => w.createdAt <= v.createdAt
               /\ row.metadata = JoinedPairs(Committed, v.id)

\* an object has V1, then a later V2 with other metadata, then a still later
\* delete marker V3, and the fetch returned the metadata of V2
C10_Witness ==
  /\ fetched.op = "fetchMetadataForObject"
  /\ fetched.threw = "none"
  /\ \E v1, v2, v3 \in version :
       /\ v1.objectId = v2.objectId /\ v2.objectId = v3.objectId
       /\ v1.createdAt < v2.createdAt /\ v2.createdAt < v3.createdAt
       /\ ~v1.deleteMarker /\ ~v2.deleteMarker /\ v3.deleteMarker
       /\ JoinedPairs(Committed, v1.id) # JoinedPairs(Committed, v2.id)
       /\ JoinedPairs(Committed, v2.id) # {}
       /\ \E row \in fetched.rows :
            row.objectId = v2.objectId /\ row.metadata = JoinedPairs(Committed, v2.id)


\* C11: the same catalog state always yields the same current version: two
\* fetches of the same objects with no change of the tables in between return
\* the same rows, also when two versions that are no delete marker share the
\* greatest createdAt
C11_TieResolvedDeterministically ==
  [][(/\ fetched.op = "fetchMetadataForObject" /\ fetched.threw = "none"
      /\ fetched'.op = "fetchMetadataForObject" /\ fetched'.threw = "none"
      /\ fetched'.objId = fetched.objId
      /\ version' = version
      /\ Committed' = Committed)
     => fetched'.rows = fetched.rows]_vars


\* the user holds a grant of READ on object o or on the bucket of o
HoldsRead(userId, o) ==
  \E g \in perm : /\ g.userId = userId
                  /\ g.permCode = "READ"
                  /\ (g.scope = "object" /\ g.id = o) \/ (g.scope = "bucket" /\ g.id = BucketOf(o))

\* C12: a fetch scoped to a user returns the row of a selected object exactly
\* when the user holds a READ grant on the object or a READ grant on its bucket
C12_ReadScopedByObjectOrBucketGrant ==
  (fetched.op = "fetchMetadataForObject" /\ fetched.threw = "none" /\ fetched.userId \in Users) =>
     \A o \in fetched.objId :
        (\E row \in fetched.rows : row.objectId = o)
           <=> (o \in {v.objectId : v \in version} /\ HoldsRead(fetched.userId, o))

\* a user with a READ grant on bucket B1 and no grant on any object has fetched
\* both objects of the bucket, and got both
C12_Witness ==
  /\ fetched.op = "fetchMetadataForObject"
  /\ fetched.threw = "none"
  /\ fetched.userId \in Users
  /\ fetched.objId = Objects
  /\ {row.objectId : row \in fetched.rows} = Objects
  /\ \A g \in perm : g.userId = fetched.userId => g.scope = "bucket"
  /\ \E g \in perm : g.userId = fetched.userId


\* the controller of the request has run
ControllerRan == \E k \in 1..Len(http.ran) : http.ran[k] = "controller.searchPermissions"

\* the request has reached the validator
ValidatorRan == \E k \in 1..Len(http.ran) : http.ran[k] = "validator.searchPermissions"

\* C13: a search with objectPerms=true reaches the controller only with userId
\* one single uuid; with objectPerms=true and userId absent or a list the
\* validator answers 422 and the controller does not run; when objectPerms is
\* false or absent, an absent userId, one uuid and a list of uuids are accepted
C13_ObjectPermsNeedsOneUserId ==
  (http.route = "GET /" /\ ValidatorRan) =>
     /\ (http.query.objectPerms = "true" /\ ControllerRan)
           => (http.query.userId.kind = "single" /\ http.query.userId.ids[1] \in Users \cup Buckets)
     /\ (http.query.objectPerms = "true" /\ http.query.userId.kind \in {"absent", "list"})
           => (http.status = 422 /\ http.endedBy = "validator.searchPermissions" /\ ~ControllerRan)
     /\ (/\ http.query.objectPerms \in {"absent", "false"}
         /\ http.query.bucketId.kind = "absent"
         /\ http.query.permCode = "absent"
         /\ \A k \in 1..Len(http.query.userId.ids) : http.query.userId.ids[k] \in Users \cup Buckets)
           => ControllerRan

\* a search with objectPerms=true and a list of two uuids was answered 422
\* by the validator
C13_Witness ==
  /\ http.route = "GET /"
  /\ http.query.objectPerms = "true"
  /\ http.query.userId.kind = "list"
  /\ Len(http.query.userId.ids) = 2
  /\ \A k \in 1..2 : http.query.userId.ids[k] \in Users
  /\ http.status = 422
  /\ ~ControllerRan


\* how often the last call of the user service called fn
TimesCalled(calls, fn) == Cardinality({k \in 1..Len(calls) : calls[k].fn = fn})

\* the place of the first call of fn among the calls, 0 when there is none
FirstCall(calls, fn) ==
  IF TimesCalled(calls, fn) = 0 THEN 0
  ELSE CHOOSE k \in 1..Len(calls) : calls[k].fn = fn /\ \A j \in 1..(k-1) : calls[j].fn # fn

\* C14: createUser inserts the user once; for a user with an idp code that has
\* no row it calls readIdp once and createIdp once, inside its transaction and
\* before the insert of the user; with a row for the code it calls readIdp once
\* and createIdp never; for a user without idp it calls neither
C14_IdpCreatedOnFirstSight ==
  [][userLast'.op = "createUser" =>
       /\ TimesCalled(userLast'.calls, "insertUser") = 1
       /\ TimesCalled(userLast'.calls, "startTransaction") = 1
       /\ IF userLast'.idp = "undefined"
          THEN /\ TimesCalled(userLast'.calls, "readIdp") = 0
               /\ TimesCalled(userLast'.calls, "createIdp") = 0
               /\ identityProvider' = identityProvider
          ELSE IF userLast'.idp \in identityProvider
          THEN /\ TimesCalled(userLast'.calls, "readIdp") = 1
               /\ TimesCalled(userLast'.calls, "createIdp") = 0
               /\ identityProvider' = identityProvider
          ELSE /\ TimesCalled(userLast'.calls, "readIdp") = 1
               /\ TimesCalled(userLast'.calls, "createIdp") = 1
               /\ FirstCall(userLast'.calls, "startTransaction") < FirstCall(userLast'.calls, "createIdp")
               /\ FirstCall(userLast'.calls, "readIdp") < FirstCall(userLast'.calls, "createIdp")
               /\ FirstCall(userLast'.calls, "createIdp") < FirstCall(userLast'.calls, "insertUser")
               /\ FirstCall(userLast'.calls, "insertUser") < FirstCall(userLast'.calls, "commit")
               /\ identityProvider' = identityProvider \cup {userLast'.idp}]_vars

\* createUser has created the idp row of its user while another idp already had one
C14_Witness ==
  /\ userLast.op = "createUser"
  /\ TimesCalled(userLast.calls, "createIdp") = 1
  /\ Cardinality(identityProvider) = 2
  /\ \E row \in userTable : row.idp = userLast.idp /\ row.identityId = userLast.identityId

\* C15: login looks the user up by identityId once; with no row of that
\* identityId it calls createUser once and updateUser never; with a row it calls
\* updateUser once, with the userId of a row of that identityId, and createUser never
C15_LoginTakesOneBranch ==
  [][userLast'.op = "login" =>
       /\ TimesCalled(userLast'.calls, "findUser") = 1
       /\ IF \A row \in userTable : row.identityId # userLast'.identityId
          THEN /\ TimesCalled(userLast'.calls, "createUser") = 1
               /\ TimesCalled(userLast'.calls, "updateUser") = 0
               /\ TimesCalled(userLast'.calls, "insertUser") = 1
          ELSE /\ TimesCalled(userLast'.calls, "createUser") = 0
               /\ TimesCalled(userLast'.calls, "insertUser") = 0
               /\ TimesCalled(userLast'.calls, "updateUser") = 1
               /\ \E row \in userTable :
                    /\ row.identityId = userLast'.identityId
                    /\ userLast'.calls[FirstCall(userLast'.calls, "updateUser")].arg = row.userId]_vars

\* a login has found its user and patched it, while a user of another identity exists
C15_Witness ==
  /\ userLast.op = "login"
  /\ TimesCalled(userLast.calls, "updateUser") = 1
  /\ TimesCalled(userLast.calls, "patchUser") = 1
  /\ Cardinality({row.identityId : row \in userTable}) = 2

\* C16: an updateUser whose mapped fields all equal the stored row, called
\* directly or by login, patches nothing, opens no transaction, looks up and
\* creates no idp, and leaves both tables as they were
C16_UnchangedUserIsNoOp ==
  [][(/\ userLast'.op \in {"updateUser", "login"}
      /\ TimesCalled(userLast'.calls, "readUser") = 1
      /\ \E row \in userTable :
           /\ row.userId = userLast'.calls[FirstCall(userLast'.calls, "readUser")].arg
           /\ row.identityId = userLast'.identityId
           /\ row.idp = userLast'.idp
           /\ row.email = userLast'.email)
     => /\ \A k \in 1..Len(userLast'.calls) :
             userLast'.calls[k].fn \notin {"patchUser", "startTransaction", "commit", "readIdp",
                                           "createIdp", "insertUser"}
        /\ userTable' = userTable
        /\ identityProvider' = identityProvider]_vars

\* a login with the claims of the stored user has called updateUser, which only read the user
C16_Witness ==
  /\ userLast.op = "login"
  /\ Len(userLast.calls) = 3
  /\ userLast.calls[2].fn = "updateUser"
  /\ userLast.calls[3].fn = "readUser"
  /\ userLast.idp \in IdpCodes


\* the one command each operation of the storage service sends
CommandOf ==
  [copyObject |-> "CopyObjectCommand", deleteObject |-> "DeleteObjectCommand",
   deleteObjectTagging |-> "DeleteObjectTaggingCommand", getObjectTagging |-> "GetObjectTaggingCommand",
   headObject |-> "HeadObjectCommand", listObjects |-> "ListObjectsCommand",
   listObjectVersion |-> "ListObjectVersionsCommand", putObject |-> "PutObjectCommand",
   putObjectTagging |-> "PutObjectTaggingCommand", readObject |-> "GetObjectCommand"]

\* how often the last call of the storage service sent the command cmd
TimesSent(sent, cmd) == Cardinality({k \in 1..Len(sent) : sent[k].c.cmd = cmd})

\* TagEntries as the Tagging string of a command and as the tags of an object
TagEntriesQuery == <<"foo", "=", "a%20b", "&", "bar", "=", "bar">>
TagEntriesTagSet == <<[Key |-> "foo", Value |-> "a b"], [Key |-> "bar", Value |-> "bar"]>>

\* C17: copyObject sends one copy command; a directive that is not given is
\* COPY, and with neither map nor directive given no metadata map is sent; with
\* metadataDirective REPLACE the command carries the caller's map and the copy
\* holds it, with taggingDirective REPLACE the caller's tags, whatever the source
\* holds; under COPY the copy holds the source's; each directive on its own
C17_CopyDirectivesDefaultToCopy ==
  [][storageLast'.op = "copyObject" =>
       /\ Len(storageLast'.sent) = 1
       /\ storageLast'.sent[1].c.cmd = "CopyObjectCommand"
       /\ storageLast'.sent[1].c.MetadataDirective =
            (IF storageLast'.args.metadataDirective = "REPLACE" THEN "REPLACE" ELSE "COPY")
       /\ storageLast'.sent[1].c.TaggingDirective =
            (IF storageLast'.args.taggingDirective = "REPLACE" THEN "REPLACE" ELSE "COPY")
       /\ (storageLast'.args.metadataDirective = "undefined" /\ storageLast'.args.metadata = "undefined")
            => storageLast'.sent[1].c.Metadata = "undefined"
       /\ storageLast'.args.metadataDirective = "REPLACE"
            => storageLast'.sent[1].c.Metadata = storageLast'.args.metadata
       /\ storageLast'.args.taggingDirective = "REPLACE"
            => storageLast'.sent[1].c.Tagging = [given |-> TRUE, value |-> TagEntriesQuery]
       /\ storageLast'.sent[1].ok =>
            /\ s3Store'[storageLast'.args.filePath].metadata =
                 (IF storageLast'.args.metadataDirective = "REPLACE" THEN storageLast'.args.metadata
                  ELSE s3Store[storageLast'.args.copySource].metadata)
            /\ s3Store'[storageLast'.args.filePath].tags =
                 (IF storageLast'.args.taggingDirective = "REPLACE" THEN TagEntriesTagSet
                  ELSE s3Store[storageLast'.args.copySource].tags)]_vars

\* a copy replaced the metadata of a source that holds another map and kept its tags
C17_Witness ==
  /\ storageLast.op = "copyObject"
  /\ storageLast.outcome.kind = "ok"
  /\ storageLast.args.metadataDirective = "REPLACE"
  /\ storageLast.args.taggingDirective = "undefined"
  /\ storageLast.args.copySource # storageLast.args.filePath
  /\ s3Store[storageLast.args.copySource].metadata = "m1"
  /\ s3Store[storageLast.args.filePath].metadata = "m2"
  /\ s3Store[storageLast.args.copySource].tags = TagEntriesTagSet
  /\ s3Store[storageLast.args.filePath].tags = TagEntriesTagSet

\* C18: each call of copyObject, deleteObject, deleteObjectTagging,
\* getObjectTagging, headObject, listObjects, listObjectVersion, putObject,
\* putObjectTagging and readObject sends exactly one command, of its kind; when
\* the command fails the call fails with a StorageError that names it, the
\* command is not sent again and the bucket is as it was
C18_NoInternalRetry ==
  [][storageLast'.op \in DOMAIN CommandOf =>
       /\ Len(storageLast'.sent) = 1
       /\ storageLast'.sent[1].c.cmd = CommandOf[storageLast'.op]
       /\ storageLast'.sent[1].ok <=> storageLast'.outcome.kind = "ok"
       /\ ~storageLast'.sent[1].ok =>
            /\ storageLast'.outcome =
                 [kind |-> "StorageError", op |-> storageLast'.op,
                  key |-> storageLast'.args.filePath, cause |-> CommandOf[storageLast'.op]]
            /\ s3Store' = s3Store]_vars

\* a putObject failed after its one command and wrote no object
C18_Witness ==
  /\ storageLast.op = "putObject"
  /\ storageLast.outcome.kind = "StorageError"
  /\ Len(storageLast.sent) = 1
  /\ ~storageLast.sent[1].ok
  /\ ~s3Store[storageLast.args.filePath].present

\* C19: upload without tags sends one put-object command and no tagging
\* command; with tags it sends the put-object command first, without the tags,
\* and after it succeeded exactly one put-object-tagging command with the tags
\* as a TagSet; no tagging command precedes the object write
C19_UploadPutsThenTags ==
  storageLast.op = "upload" =>
    /\ storageLast.sent[1].c.cmd = "PutObjectCommand"
    /\ ~storageLast.sent[1].c.Tagging.given
    /\ TimesSent(storageLast.sent, "PutObjectCommand") = 1
    /\ IF storageLast.args.tags.given /\ storageLast.sent[1].ok
       THEN /\ Len(storageLast.sent) = 2
            /\ storageLast.sent[2].c.cmd = "PutObjectTaggingCommand"
            /\ storageLast.sent[2].c.Key = storageLast.sent[1].c.Key
            /\ storageLast.sent[2].c.TagSet = [given |-> TRUE, value |-> TagEntriesTagSet]
       ELSE Len(storageLast.sent) = 1

\* an upload with tags wrote the object and then tagged it
C19_Witness ==
  /\ storageLast.op = "upload"
  /\ storageLast.outcome.kind = "ok"
  /\ Len(storageLast.sent) = 2
  /\ s3Store[storageLast.args.filePath].tags = TagEntriesTagSet
  /\ s3Store[storageLast.args.filePath].metadata = "m1"

RowsOf(rows, s, g) ==
  {r \in rows : r.scope = s.scope /\ r.id = s.id /\ r.userId = g.userId /\ r.permCode = g.permCode}

\* C21: an addPermissions call succeeds, removes no row and leaves exactly one row
\* for every grant of its body; a grant that a row held before the call keeps that
\* row and gets no second one, so no two rows ever hold the same (userId, scope,
\* permission code)
C21_GrantingIsIdempotent ==
  [][fetched'.op = "addPermissions" =>
       /\ fetched'.threw = "none"
       /\ perm \subseteq perm'
       /\ \A k \in 1..Len(fetched'.body) :
            /\ Cardinality(RowsOf(perm', fetched'.scope, fetched'.body[k])) = 1
            /\ RowsOf(perm, fetched'.scope, fetched'.body[k]) # {}
                 => RowsOf(perm', fetched'.scope, fetched'.body[k])
                      = RowsOf(perm, fetched'.scope, fetched'.body[k])
       /\ \A r1, r2 \in perm' :
            (r1.scope = r2.scope /\ r1.id = r2.id /\ r1.userId = r2.userId
               /\ r1.permCode = r2.permCode) => r1 = r2]_vars

\* a request with a grant that existed and a new one has inserted only the new one
C21_Witness ==
  /\ fetched.op = "addPermissions"
  /\ Len(fetched.body) = 2
  /\ fetched.body[1] # fetched.body[2]
  /\ Cardinality(fetched.inserted) = 1
  /\ Cardinality(perm) = 2
  /\ \E r \in perm \ fetched.inserted : r \in RowsOf(perm, fetched.scope, fetched.body[1])


\* statement `name` is in the log of the last call
Ran(name) == \E i \in 1..Len(last.log) : last.log[i] = name

\* C22: when an associateMetadata call has pruned, no Metadata row the call's
\* createMetadata resolved for the incoming set is among the rows it pruned,
\* and the insert of the new joins is not refused for a missing Metadata row
C22_PruneSparesTargetRows ==
  (last.op = "associateMetadata" /\ Ran("pruneSelect")) =>
     /\ \A i \in 1..Len(last.dbMetadata) : last.dbMetadata[i].id \notin last.pruned
     /\ last.threw # "fk"


\* the joins of version v in table vm
JoinsOf(vm, v) == {j \in vm : j.versionId = v}

\* T: the ids of the Metadata rows that hold the pairs of the incoming array
TargetIds(md, pairs) ==
  {m.id : m \in {r \in md : \E i \in 1..Len(pairs) : pairs[i].key = r.key /\ pairs[i].value = r.value}}

\* C23: a returned associateMetadata(V, S) has deleted exactly the joins of V
\* whose row is not in T, inserted exactly one join for every row of T that V
\* was not joined to, each with createdBy the actor (the system user when none
\* is given), and has left the joins of V to rows of T as they were
C23_AppliesMinimalDelta ==
  [][(last'.op = "associateMetadata" /\ last'.threw = "none") =>
       /\ JoinsOf(versionMetadata, last'.versionId) \ JoinsOf(versionMetadata', last'.versionId)
            = {j \in JoinsOf(versionMetadata, last'.versionId) :
                 j.metadataId \notin TargetIds(metadata', last'.md)}
       /\ JoinsOf(versionMetadata', last'.versionId) \ JoinsOf(versionMetadata, last'.versionId)
            = {[versionId |-> last'.versionId, metadataId |-> id,
                createdBy |-> CurrentUserId(last'.user)] :
                 id \in TargetIds(metadata', last'.md)
                          \ {j.metadataId : j \in JoinsOf(versionMetadata, last'.versionId)}}
       /\ Ran("deleteJoins")' <=>
            \E j \in JoinsOf(versionMetadata, last'.versionId) :
               j.metadataId \notin TargetIds(metadata', last'.md)]_vars


\* the place of statement `name` in the log of the last call, 0 when it did not run
At(name) ==
  IF Ran(name) THEN CHOOSE i \in 1..Len(last.log) : last.log[i] = name ELSE 0

\* C24: an associateMetadata call prunes if and only if it has deleted a join
\* of its version; the pruning follows the deletion of the joins and precedes
\* the insert of the new joins, and the call opens one transaction, at its
\* start, and ends it only with its last statement
C24_PrunesIffJoinsDeleted ==
  last.op = "associateMetadata" =>
     /\ Ran("deleteJoins") <=> last.dissociateMetadata # {}
     /\ Ran("pruneSelect") <=> Ran("deleteJoins")
     /\ Ran("pruneDelete") <=> Ran("deleteJoins")
     /\ Ran("deleteJoins") =>
          /\ At("deleteJoins") < At("pruneSelect")
          /\ At("pruneSelect") < At("pruneDelete")
          /\ Ran("insertJoins") => At("pruneDelete") < At("insertJoins")
     /\ \A i \in 1..Len(last.log) :
          /\ last.log[i] = "startTransaction" => i = 1
          /\ last.log[i] \in {"commit", "rollback"} => i = Len(last.log)

\* a call has deleted a join, pruned one row, inserted a join and committed
C24_Witness ==
  /\ AssociateReturned
  /\ Ran("deleteJoins")
  /\ Ran("insertJoins")
  /\ last.pruned # {}
  /\ last.log = <<"startTransaction", "selectMetadata", "selectJoins", "deleteJoins",
                  "pruneSelect", "pruneDelete", "insertJoins", "commit">>


\* C25: a returned pruneOrphanedMetadata has deleted every Metadata row that no
\* join referred to when it ran and no other row, has left the joins alone, and
\* has returned the number of rows it deleted
C25_PruneDeletesExactlyOrphans ==
  [][(last'.op = "pruneOrphanedMetadata" /\ last'.threw = "none") =>
       /\ metadata' = metadata \ Unreferenced(Committed)
       /\ versionMetadata' = versionMetadata
       /\ last'.deleted = Cardinality(Unreferenced(Committed))
       /\ last'.pruned = {m.id : m \in Unreferenced(Committed)}]_vars

\* a pruning has deleted two rows and kept a row that a version is joined to
C25_Witness ==
  /\ last.op = "pruneOrphanedMetadata"
  /\ last.threw = "none"
  /\ last.deleted = 2
  /\ metadata # {}
  /\ Unreferenced(Committed) = {}


\* the number of entries of sequence q that hold the pair (key, value)
Occurrences(q, key, value) ==
  Cardinality({i \in 1..Len(q) : q[i].key = key /\ q[i].value = value})

C27_OtherVersionsUntouched ==
  [][last'.op = "associateMetadata" =>
       \A v \in Versions \ {last'.versionId} :
          JoinsOf(versionMetadata', v) = JoinsOf(versionMetadata, v)]_vars

\* a call has deleted a join of its version and inserted another while the
\* other version holds a join to the row the call dissociated from its own
C27_Witness ==
  /\ AssociateReturned
  /\ Ran("deleteJoins")
  /\ Ran("insertJoins")
  /\ \E v \in Versions \ {last.versionId} :
        /\ \E j \in JoinsOf(versionMetadata, v) : j.metadataId \in last.dissociateMetadata
        /\ \E j \in JoinsOf(versionMetadata, v) : j.metadataId \notin last.dissociateMetadata


\* the rows of table md that hold the pair of p
RowsOfPair(md, p) == GetObjectsByKeyValue(md, p.key, p.value)

C29_FetchNeverFails ==
  fetched.op = "fetchMetadataForObject" =>
     /\ fetched.threw = "none"
     /\ {row.objectId : row \in fetched.rows} = SelectedObjects(fetched.objId, fetched.userId)


\* the version ids of the rows a fetchMetadataForVersion returned
ReturnedVersionIds == {fetched.rows[i].versionId : i \in 1..Len(fetched.rows)}

\* C30: fetchMetadataForVersion with a userId returns a row for exactly the
\* requested versions whose object the user holds READ on, by an object or a
\* bucket grant; without a userId it returns every requested version; no row
\* is returned twice and no row holds the joined object
C30_VersionReadScopedToUser ==
  fetched.op = "fetchMetadataForVersion" =>
     /\ ReturnedVersionIds =
          {v.id : v \in {w \in version :
                           /\ fetched.versionIds.given => w.id \in fetched.versionIds.ids
                           /\ fetched.userId \in Users => HoldsRead(fetched.userId, w.objectId)}}
     /\ Cardinality(ReturnedVersionIds) = Len(fetched.rows)
     /\ \A i \in 1..Len(fetched.rows) :
          /\ DOMAIN fetched.rows[i] = {"versionId", "metadata"}
          /\ fetched.rows[i].metadata = JoinedPairs(Committed, fetched.rows[i].versionId)

\* a user with READ on one object only has asked for the versions of both
\* objects and got the version of that object alone
C30_Witness ==
  /\ fetched.op = "fetchMetadataForVersion"
  /\ fetched.userId \in Users
  /\ Len(fetched.rows) = 1
  /\ fetched.rows[1].metadata # {}
  /\ \E v, w \in version :
        /\ v.objectId # w.objectId
        /\ fetched.versionIds.given => {v.id, w.id} \subseteq fetched.versionIds.ids
        /\ v.id = fetched.rows[1].versionId
        /\ HoldsRead(fetched.userId, v.objectId)
        /\ ~HoldsRead(fetched.userId, w.objectId)


\* the tables that differ from md in the values of its rows only
ValueVariants(md) ==
  {t \in {{[id |-> m.id, key |-> m.key, value |-> f[m.id]] : m \in md} :
            f \in [{m.id : m \in md} -> Values]} :
     \A m1, m2 \in t : (m1.key = m2.key /\ m1.value = m2.value) => m1 = m2}

\* C31: with the mask a searchMetadata result holds the key of each selected
\* row and nothing else, and is the same for every table that differs from the
\* searched one in its values only; without the mask it holds key and value of
\* the rows that match the filter
C31_PrivacyMaskHidesValues ==
  fetched.op = "searchMetadata" =>
     IF fetched.privacyMask
     THEN /\ \A id \in DOMAIN fetched.rows : DOMAIN fetched.rows[id] = {"key"}
          /\ \A t \in ValueVariants(fetched.table) :
               SearchMetadata(t, TRUE, fetched.metadata) = fetched.rows
     ELSE /\ DOMAIN fetched.rows = {m.id : m \in FilterKeyValue(fetched.table, fetched.metadata)}
          /\ \A m \in fetched.table : m.id \in DOMAIN fetched.rows =>
               fetched.rows[m.id] = [key |-> m.key, value |-> m.value]

\* a masked search by a pair has returned two rows of one key, which hold
\* different values in the table and of which the filter's value names one
C31_Witness ==
  /\ fetched.op = "searchMetadata"
  /\ fetched.privacyMask
  /\ fetched.metadata.given
  /\ Cardinality(DOMAIN fetched.rows) = 2
  /\ \E m1, m2 \in fetched.table :
        /\ m1.id # m2.id /\ m1.key = m2.key /\ m1.value # m2.value
        /\ {m1.id, m2.id} = DOMAIN fetched.rows
        /\ \E p \in fetched.metadata.pairs : p.value = m1.value
  /\ Cardinality(ValueVariants(fetched.table)) > 1


\* the place of the first handler of the kind among those that ran, 0 when none ran
RanAt(kind) ==
  IF \E k \in 1..Len(http.ran) : http.ran[k].kind = kind
  THEN CHOOSE k \in 1..Len(http.ran) :
         http.ran[k].kind = kind /\ \A j \in 1..(k - 1) : http.ran[j].kind # kind
  ELSE 0

\* the permission code the routes of a controller ask for
RouteCode(name) ==
  IF name \in {"headObject", "readObject", "listObjectVersion"} THEN "READ"
  ELSE IF name = "deleteObject" THEN "DELETE"
  ELSE IF name \in {"togglePublic", "listPermissions", "addPermissions", "removePermissions"}
       THEN "MANAGE"
  ELSE "UPDATE"

\* C32: on a route on /:objectId the controller runs only when every middleware
\* that ran before it passed the request on, and these are, in this order, the
\* route's validator, requireSomeAuth (except on HEAD and GET /:objectId),
\* currentObject and hasPermission with the code of the route; when a middleware
\* does not pass the request on, the controller does not run
C32_ControllerRunsAfterItsMiddleware ==
  http.route \notin {"none", "GET /"} =>
     /\ RanAt("controller") > 0 =>
          /\ RanAt("controller") = Len(http.ran)
          /\ http.ran[Len(http.ran)].arg = http.name
          /\ \A k \in 1..(Len(http.ran) - 1) : http.ran[k].kind \in http.passes
          /\ 0 < RanAt("validator")
          /\ http.ran[RanAt("validator")].arg = http.name
          /\ IF http.router = "object" /\ http.route = "/:objectId" /\ http.method \in {"HEAD", "GET"}
             THEN RanAt("requireSomeAuth") = 0
             ELSE RanAt("validator") < RanAt("requireSomeAuth")
          /\ RanAt("validator") < RanAt("currentObject")
          /\ RanAt("requireSomeAuth") < RanAt("currentObject")
          /\ RanAt("currentObject") < RanAt("hasPermission")
          /\ RanAt("hasPermission") = RanAt("controller") - 1
          /\ http.ran[RanAt("hasPermission")].arg = RouteCode(http.name)
     /\ (\E k \in 1..Len(http.ran) :
            http.ran[k].kind # "controller" /\ http.ran[k].kind \notin http.passes)
          => RanAt("controller") = 0

\* a DELETE /:objectId rejected by hasPermission(DELETE), after the validator,
\* requireSomeAuth and currentObject let it through, did not reach the controller
C32_Witness ==
  /\ http.route = "/:objectId"
  /\ http.router = "object"
  /\ http.method = "DELETE"
  /\ RanAt("validator") > 0
  /\ RanAt("requireSomeAuth") > RanAt("validator")
  /\ RanAt("currentObject") > RanAt("requireSomeAuth")
  /\ http.ran[Len(http.ran)] = Handler("hasPermission", "DELETE")
  /\ RanAt("controller") = 0


\* C33: a request is passed on to the API router only while state.ready is true
\* and state.shutdown is false; otherwise it is answered 503, 'Server is shutting
\* down' when shutdown is set and 'Server is not ready' otherwise, and no route
\* handler runs
C33_GateAdmitsOnlyWhenReady ==
  app.event = "request" =>
     /\ app.response.routed <=> (app.ready /\ ~app.shutdown)
     /\ ~app.response.routed =>
          /\ app.response.status = 503
          /\ app.response.details = IF app.shutdown THEN "Server is shutting down"
                                    ELSE "Server is not ready"

\* a request that came while the service was ready and shutting down was
\* answered 503 'Server is shutting down'
C33_Witness ==
  /\ app.event = "request"
  /\ app.ready
  /\ app.shutdown
  /\ app.response = [status |-> 503, details |-> "Server is shutting down", routed |-> FALSE]

\* C34: whenever the initial check settles and does not leave the service ready,
\* because checkAll rejected or reported the database unreachable, the exit code
\* is 1 and shutdown is initiated: a shutdown timer is armed or cleanup has begun
C34_FailedInitializationForcesExit ==
  [][(app.initPending /\ ~app'.initPending /\ ~app'.ready)
       => (app'.exitCode = 1 /\ (app'.shutdown \/ app'.shutdownTimers > 0))]_vars

\* C35: when a check that the probe started finds the connection down, state.ready
\* becomes false, the exit code 1 and shutdown() is called, which arms a shutdown
\* timer unless cleanup has begun; a probe that fires once state.shutdown is set
\* starts no check and changes no state
C35_ProbeFailureShutsDown ==
  [][/\ (app'.event = "probeResult" /\ app'.result = "false" /\ app'.checks = app.checks - 1)
         => /\ ~app'.ready
            /\ app'.exitCode = 1
            /\ app'.shutdownTimers = IF app.shutdown THEN app.shutdownTimers
                                     ELSE app.shutdownTimers + 1
     /\ (app'.event = "probe" /\ app.shutdown)
         => app' = [app EXCEPT !.event = "probe"]]_vars

\* a check found the connection of a ready service down: not ready, exit code 1,
\* a shutdown timer pending
C35_Witness ==
  /\ app.event = "probeResult"
  /\ app.result = "false"
  /\ ~app.ready
  /\ app.exitCode = 1
  /\ app.shutdownTimers = 1
  /\ ~app.shutdown
  /\ ~app.signalled

\* C36: cleanup runs after a kill signal only when a shutdown timer fires, and
\* once a kill signal has arrived the process eventually exits, by the close
\* callback of the data connection or by the hard-exit timer
C36_SignalLeadsToExit ==
  /\ [][app'.cleanups > app.cleanups /\ app.loaded
          => app'.shutdownTimers = app.shutdownTimers - 1]_vars
  /\ [][app'.exited /\ ~app.exited => app'.event \in {"closeCallback", "hardExitTimer"}]_vars
  /\ (app.signalled ~> (app.exited /\ app.cleanups > 0))

\* the process exited by the hard-exit timer after a kill signal and one cleanup
C36_Witness ==
  /\ app.signalled
  /\ app.cleanups = 1
  /\ app.exited
  /\ app.event = "hardExitTimer"
  /\ ~app.oidc

\* C37: cleanup starts at most once in a run of the process: the data connection
\* is closed once and one hard-exit timer is armed
C37_CleanupStartsOnce ==
  /\ app.cleanups <= 1
  /\ app.closeCalls <= 1
  /\ app.hardExitTimers <= 1


\* C38: once two login calls that ran at the same time with one identityId no
\* user row held before have both finished, table user holds exactly one row
\* with that identityId
C38_ConcurrentLoginsLeaveOneUser ==
  \A p, q \in Procs :
    (/\ p # q
     /\ logins[p].pc = "done"
     /\ logins[q].pc = "done"
     /\ logins[p].token.sub = logins[q].token.sub
     /\ logins[p].oldUser = NoUser
     /\ logins[q].oldUser = NoUser)
      => Cardinality({row \in userTable : row.identityId = logins[p].token.sub}) = 1

====
